---- MODULE Spec2Model ----
(***************************************************************************)
(* BidWriter: the budget engine (lib/budget-calc.js) and the compliance    *)
(* checker (lib/templates.js) behind the routes POST /api/budget/calculate *)
(* and POST /api/compliance/check of server.js.                            *)
(*                                                                         *)
(* JavaScript values are modelled as follows.                              *)
(*   - a primitive is a record [k, num, den, s]: k is its kind             *)
(*     ("undefined", "null", "boolean", "NaN", "number", "string"), a      *)
(*     number is the reduced fraction num/den, a string is the sequence s  *)
(*     of its characters;                                                  *)
(*   - an object is a function from its own keys to values, so a missing   *)
(*     key is a key outside DOMAIN;                                        *)
(*   - an array is [k |-> "array", items |-> <<...>>].                     *)
(* Arithmetic is exact rational arithmetic: the binary rounding error of   *)
(* IEEE doubles is not modelled.                                           *)
(***************************************************************************)
EXTENDS Integers, Sequences, FiniteSets, TLC

VARIABLES
  request,   \* the request the engine routes have in hand
  response,  \* the response to it
  calls,     \* the engine calls of a process so far, with their results
  proposals, \* PROPOSALS_DIR: id -> the proposal stored in <id>.json
  versions,  \* VERSIONS_DIR: versionId -> the proposal id and the snapshot
  issued,    \* the number of identifiers crypto.randomUUID() has given out
  restoring, \* the restore request being handled, step by step
  createdAtOf, \* history: id -> the createdAt written when id was created
  state,     \* app.js: state.currentProposal and state.unsavedChanges
  saves,     \* the calls of saveProposal() that wait for fetch
  res,       \* the response of a generate route
  generation, \* the provider call of a generate route
  reading    \* generateSection() and its call of streamResponse()

storeVars == <<proposals, versions, issued, restoring, createdAtOf>>

clientVars == <<state, saves, res, generation, reading>>

vars == <<request, response, calls, storeVars, clientVars>>

\* the variables that the engine routes, the engine calls, the proposal
\* routes, the editor and a generation leave alone
besideRoutes == <<calls, storeVars, clientVars>>

besideCalls == <<request, response, storeVars, clientVars>>

besideStore == <<request, response, calls, clientVars>>

besideEditor ==
  <<request, response, calls, versions, issued, restoring, createdAtOf,
    res, generation, reading>>

besideStream == <<request, response, calls, storeVars, saves>>

(***************************************************************************)
(* Numbers                                                                 *)
(***************************************************************************)
Abs(n) == IF n < 0 THEN -n ELSE n

RECURSIVE GCD(_, _)
GCD(a, b) == IF b = 0 THEN a ELSE GCD(b, a % b)

\* the JS number n/d (d > 0), reduced
Num(n, d) ==
  LET g == GCD(Abs(n), d)
  IN [k |-> "number", num |-> n \div g, den |-> d \div g, s |-> <<>>]

Whole(n) == Num(n, 1)

Undefined == [k |-> "undefined", num |-> 0, den |-> 1, s |-> <<>>]

Null == [k |-> "null", num |-> 0, den |-> 1, s |-> <<>>]

NaN == [k |-> "NaN", num |-> 0, den |-> 1, s |-> <<>>]

True == [k |-> "boolean", num |-> 1, den |-> 1, s |-> <<>>]

Str(chars) == [k |-> "string", num |-> 0, den |-> 1, s |-> chars]

\* an object with own properties f, an array, and null in their places
Obj(f) == [k |-> "object", f |-> f]

Arr(items) == [k |-> "array", items |-> items]

NullItem == [k |-> "null", f |-> <<>>]

NullArr == [k |-> "null", items |-> <<>>]

\* a + b over the least common denominator
Add(a, b) ==
  LET g == GCD(a.den, b.den)
  IN Num(a.num * (b.den \div g) + b.num * (a.den \div g), a.den * (b.den \div g))

Sub(a, b) == Add(a, [b EXCEPT !.num = -b.num])

\* a * b, the common factors cancelled before multiplying
Mul(a, b) ==
  LET g1 == GCD(Abs(a.num), b.den)
      g2 == GCD(Abs(b.num), a.den)
  IN Num((a.num \div g1) * (b.num \div g2), (a.den \div g2) * (b.den \div g1))

\* a / b for b # 0
Div(a, b) ==
  IF b.num > 0 THEN Mul(a, [b EXCEPT !.num = b.den, !.den = b.num])
  ELSE Mul(a, [b EXCEPT !.num = -b.den, !.den = -b.num])

Less(a, b) ==
  LET g == GCD(a.den, b.den)
  IN a.num * (b.den \div g) < b.num * (a.den \div g)

\* Math.round: the nearest integer, a tie going up
MathRound(a) == Whole((2 * a.num + a.den) \div (2 * a.den))

\* Math.ceil
MathCeil(a) == Whole(-((-a.num) \div a.den))

(***************************************************************************)
(* parseFloat and the `x || d` idiom                                       *)
(***************************************************************************)
Digits == {"0", "1", "2", "3", "4", "5", "6", "7", "8", "9"}

DigitVal(c) ==
  CASE c = "0" -> 0 [] c = "1" -> 1 [] c = "2" -> 2 [] c = "3" -> 3
    [] c = "4" -> 4 [] c = "5" -> 5 [] c = "6" -> 6 [] c = "7" -> 7
    [] c = "8" -> 8 [] c = "9" -> 9

WhiteSpace == {" ", "\n", "\t"}

\* first index >= i of s whose character is outside cs (Len(s)+1 if none)
RECURSIVE SkipWhile(_, _, _)
SkipWhile(s, i, cs) ==
  IF i <= Len(s) /\ s[i] \in cs THEN SkipWhile(s, i + 1, cs) ELSE i

\* value of the digits s[i..j-1]
RECURSIVE DigitsVal(_, _, _)
DigitsVal(s, i, j) ==
  IF j <= i THEN 0 ELSE 10 * DigitsVal(s, i, j - 1) + DigitVal(s[j - 1])

RECURSIVE Pow10(_)
Pow10(n) == IF n = 0 THEN 1 ELSE 10 * Pow10(n - 1)

\* Each step of a computation below is an operator of its own that hands
\* the value it computes to the next step, so that the value is computed once.

\* the numeral with sign neg, integer digits s[i1..i2-1] and, when s[i2] is a
\* point, fraction digits s[i2+1..i3-1]; NaN when it has no digit
numeral(s, neg, i1, i2, i3) ==
  LET nfrac == IF i3 > i2 THEN i3 - i2 - 1 ELSE 0
      mag == Num(DigitsVal(s, i1, i2) * Pow10(nfrac) + DigitsVal(s, i2 + 1, i3),
                 Pow10(nfrac))
  IN IF i2 = i1 /\ nfrac = 0 THEN NaN
     ELSE IF neg THEN [mag EXCEPT !.num = -mag.num] ELSE mag

fractionFrom(s, neg, i1, i2) ==
  numeral(s, neg, i1, i2,
          IF i2 <= Len(s) /\ s[i2] = "." THEN SkipWhile(s, i2 + 1, Digits) ELSE i2)

digitsFrom(s, neg, i1) == fractionFrom(s, neg, i1, SkipWhile(s, i1, Digits))

signFrom(s, i0) ==
  digitsFrom(s, i0 <= Len(s) /\ s[i0] = "-",
             IF i0 <= Len(s) /\ s[i0] \in {"+", "-"} THEN i0 + 1 ELSE i0)

\* parseFloat of a string: leading white space, an optional sign, digits,
\* an optional fraction; anything after the numeral is ignored
parseFloatStr(s) == signFrom(s, SkipWhile(s, 1, WhiteSpace))

parseFloat(v) ==
  CASE v.k = "number" -> v
    [] v.k = "string" -> parseFloatStr(v.s)
    [] OTHER -> NaN

\* the value of `v || d` for a number-or-NaN v
OrElse(v, d) == IF v.k = "NaN" \/ v.num = 0 THEN d ELSE v

\* obj.key, undefined when the key is missing
Field(obj, key) == IF key \in DOMAIN obj THEN obj[key] ELSE Undefined

\* a destructuring default: applies to a missing key only
Default(obj, key, d) == IF key \in DOMAIN obj THEN obj[key] ELSE d

(***************************************************************************)
(* Budget engine (lib/budget-calc.js)                                      *)
(***************************************************************************)
\* no on-costs when the rate is missing
DEFAULT_ON_COST_RATE_Zero == Whole(0)

DEFAULT_ON_COST_RATE == Num(1, 4)

\* round with Math.floor in place of Math.round
round_Floor(n) ==
  Div(Whole(Mul(n, Whole(100)).num \div Mul(n, Whole(100)).den), Whole(100))

round(n) == Div(MathRound(Mul(n, Whole(100))), Whole(100))

RECURSIVE SumSeq(_, _)
SumSeq(arr, n) == IF n = 0 THEN Whole(0) ELSE Add(SumSeq(arr, n - 1), arr[n])

sum(arr) == round(SumSeq(arr, Len(arr)))

Categories ==
  {"staff", "travel", "equipment", "consumables", "other", "subcontracting"}

\* the return of the staff.map callback
staffReturn(item, fte, annualCost, monthlyCost, totalBase, onCosts) ==
  [fte |-> Mul(fte, Whole(100)),
   annualCost |-> annualCost,
   monthlyCost |-> monthlyCost,
   totalBase |-> round(totalBase),
   onCosts |-> round(onCosts),
   total |-> round(Add(totalBase, onCosts))] @@ item

\* const onCosts = totalBase * onCostRate
staffOnCosts(item, fte, onCostRate, annualCost, monthlyCost, totalBase) ==
  staffReturn(item, fte, annualCost, monthlyCost, totalBase,
              Mul(totalBase, onCostRate))

\* const totalBase = monthlyCost * months
staffTotalBase(item, fte, months, onCostRate, annualCost, monthlyCost) ==
  staffOnCosts(item, fte, onCostRate, annualCost, monthlyCost,
               Mul(monthlyCost, months))

\* const monthlyCost = annualCost / 12
staffMonthlyCost(item, fte, months, onCostRate, annualCost) ==
  staffTotalBase(item, fte, months, onCostRate, annualCost,
                 Div(annualCost, Whole(12)))

\* const annualCost = baseSalary * fte
staffAnnualCost(item, baseSalary, fte, months, onCostRate) ==
  staffMonthlyCost(item, fte, months, onCostRate, Mul(baseSalary, fte))

\* the record staff.map builds for one item
staffItem(item) ==
  staffAnnualCost(
    item,
    OrElse(parseFloat(Field(item, "salary")), Whole(0)),
    Div(OrElse(parseFloat(Field(item, "fte")), Whole(100)), Whole(100)),
    OrElse(parseFloat(Field(item, "months")), Whole(0)),
    OrElse(parseFloat(Field(item, "onCostRate")), DEFAULT_ON_COST_RATE))

\* travelItem with the number of trips left out of the product
travelItem_OneTrip(item) ==
  LET costPerTrip == OrElse(parseFloat(Field(item, "costPerTrip")), Whole(0))
  IN [total |-> round(costPerTrip)] @@ item

\* the record travel.map builds for one item
travelItem(item) ==
  LET costPerTrip == OrElse(parseFloat(Field(item, "costPerTrip")), Whole(0))
      numTrips == OrElse(parseFloat(Field(item, "numTrips")), Whole(1))
  IN [total |-> round(Mul(costPerTrip, numTrips))] @@ item

\* costItem with the subtotal as it is parsed
costItem_Unrounded(item) ==
  [total |-> OrElse(parseFloat(Field(item, "cost")), Whole(0))] @@ item

\* costItem without the spread of the input item
costItem_NoSpread(item) ==
  [total |-> round(OrElse(parseFloat(Field(item, "cost")), Whole(0)))]

\* the record the equipment, consumables, other and subcontracting maps build
costItem(item) ==
  [total |-> round(OrElse(parseFloat(Field(item, "cost")), Whole(0)))] @@ item

calcItem(cat, item) ==
  CASE cat = "staff" -> staffItem(item)
    [] cat = "travel" -> travelItem(item)
    [] OTHER -> costItem(item)

\* `cat = []` in the destructuring: the default replaces a missing key only
categoryOf(budgetData, cat) ==
  Default(budgetData, cat, [k |-> "array", items |-> <<>>])

\* arr.map(item => ... item.x ...) raises a TypeError when arr is not an
\* array or an element is null
mapRaises(arr) ==
  \/ arr.k # "array"
  \/ \E i \in 1..Len(arr.items) : arr.items[i].k # "object"

\* { items: calc, total: sum(calc.map(i => i.total)) }
categoryResult(calc) ==
  [items |-> calc, total |-> sum([i \in DOMAIN calc |-> calc[i].total])]

calcCategory(budgetData, cat) ==
  categoryResult([i \in 1..Len(categoryOf(budgetData, cat).items) |->
                    calcItem(cat, categoryOf(budgetData, cat).items[i].f)])

\* one arm of the switch: the funder's share at a rate and the remainder
remainder(rate, fullEconomicCost, funderContribution) ==
  <<rate, funderContribution, round(Sub(fullEconomicCost, funderContribution))>>

splitAt(rate, fullEconomicCost) ==
  remainder(rate, fullEconomicCost, round(Mul(fullEconomicCost, rate)))

\* costSplit with the institution's share rounded from its own product
costSplit_BothRounded(costModel, fecRate, customRate, fullEconomicCost) ==
  LET split(rate) ==
        <<rate, round(Mul(fullEconomicCost, rate)),
          round(Mul(fullEconomicCost, Sub(Whole(1), rate)))>>
  IN CASE costModel = "fEC" -> split(Div(fecRate, Whole(100)))
       [] costModel = "full" -> <<Whole(1), fullEconomicCost, Whole(0)>>
       [] costModel = "custom" -> split(Div(customRate, Whole(100)))
       [] OTHER -> split(Div(fecRate, Whole(100)))

\* costSplit without the 'full' case, which then falls to the default
costSplit_NoFullCase(costModel, fecRate, customRate, fullEconomicCost) ==
  CASE costModel = "fEC" -> splitAt(Div(fecRate, Whole(100)), fullEconomicCost)
    [] costModel = "custom" -> splitAt(Div(customRate, Whole(100)), fullEconomicCost)
    [] OTHER -> splitAt(Div(fecRate, Whole(100)), fullEconomicCost)

\* costSplit whose default charges the funder in full
costSplit_DefaultFull(costModel, fecRate, customRate, fullEconomicCost) ==
  CASE costModel = "fEC" -> splitAt(Div(fecRate, Whole(100)), fullEconomicCost)
    [] costModel = "full" -> <<Whole(1), fullEconomicCost, Whole(0)>>
    [] costModel = "custom" -> splitAt(Div(customRate, Whole(100)), fullEconomicCost)
    [] OTHER -> <<Whole(1), fullEconomicCost, Whole(0)>>

\* the switch on costModel: <<rate, funderContribution, institutionContribution>>
costSplit(costModel, fecRate, customRate, fullEconomicCost) ==
  CASE costModel = "fEC" -> splitAt(Div(fecRate, Whole(100)), fullEconomicCost)
    [] costModel = "full" -> <<Whole(1), fullEconomicCost, Whole(0)>>
    [] costModel = "custom" -> splitAt(Div(customRate, Whole(100)), fullEconomicCost)
    [] OTHER -> splitAt(Div(fecRate, Whole(100)), fullEconomicCost)

\* the object calculateBudget returns
budgetReturn(budgetData, cats, directCosts, indirectCosts, fullEconomicCost, split) ==
  [raised |-> FALSE,
   categories |-> cats,
   summary |->
     [directCosts |-> directCosts,
      indirectCosts |-> indirectCosts,
      overheadRate |-> Default(budgetData, "overheadRate", Whole(25)),
      fullEconomicCost |-> fullEconomicCost,
      costModel |-> Default(budgetData, "costModel", "fEC"),
      funderRate |-> round(Mul(split[1], Whole(100))),
      funderContribution |-> split[2],
      institutionContribution |-> split[3]]]

\* the switch on costModel
budgetSplit(budgetData, cats, directCosts, indirectCosts, fullEconomicCost) ==
  budgetReturn(budgetData, cats, directCosts, indirectCosts, fullEconomicCost,
               costSplit(Default(budgetData, "costModel", "fEC"),
                         Default(budgetData, "fecRate", Whole(80)),
                         Default(budgetData, "customRate", Whole(100)),
                         fullEconomicCost))

\* const fullEconomicCost = round(directCosts + indirectCosts)
budgetFullEconomicCost(budgetData, cats, directCosts, indirectCosts) ==
  budgetSplit(budgetData, cats, directCosts, indirectCosts,
              round(Add(directCosts, indirectCosts)))

\* const indirectCosts = round(directCosts * (overheadRate / 100))
budgetIndirectCosts(budgetData, cats, directCosts) ==
  budgetFullEconomicCost(
    budgetData, cats, directCosts,
    round(Mul(directCosts,
              Div(Default(budgetData, "overheadRate", Whole(25)), Whole(100)))))

\* const directCosts = staffTotal + travelTotal + ... + subTotal
budgetDirectCosts(budgetData, cats) ==
  budgetIndirectCosts(
    budgetData, cats,
    Add(Add(Add(Add(Add(cats["staff"].total, cats["travel"].total),
                    cats["equipment"].total),
                cats["consumables"].total),
            cats["other"].total),
        cats["subcontracting"].total))

\* calculateBudget(budgetData): [raised |-> TRUE] when the call throws
calculateBudget(budgetData) ==
  IF \E cat \in Categories : mapRaises(categoryOf(budgetData, cat))
  THEN [raised |-> TRUE]
  ELSE budgetDirectCosts(budgetData,
                         [cat \in Categories |-> calcCategory(budgetData, cat)])

(***************************************************************************)
(* Strings                                                                 *)
(***************************************************************************)
UpperToLower ==
  [A |-> "a", B |-> "b", C |-> "c", D |-> "d", E |-> "e", F |-> "f", G |-> "g",
   H |-> "h", I |-> "i", J |-> "j", K |-> "k", L |-> "l", M |-> "m", N |-> "n",
   O |-> "o", P |-> "p", Q |-> "q", R |-> "r", S |-> "s", T |-> "t", U |-> "u",
   V |-> "v", W |-> "w", X |-> "x", Y |-> "y", Z |-> "z"]

LowerChar(c) == IF c \in DOMAIN UpperToLower THEN UpperToLower[c] ELSE c

toLowerCase(s) == [i \in 1..Len(s) |-> LowerChar(s[i])]

\* \w of a regular expression
WordChars ==
  DOMAIN UpperToLower \cup {UpperToLower[c] : c \in DOMAIN UpperToLower}
    \cup Digits \cup {"_"}

\* needle occurs in hay at index i
OccursAt(hay, needle, i) ==
  /\ i >= 1 /\ i + Len(needle) - 1 <= Len(hay)
  /\ \A j \in 1..Len(needle) : hay[i + j - 1] = needle[j]

includes(hay, needle) == \E i \in 1..(Len(hay) + 1) : OccursAt(hay, needle, i)

\* last index <= i of s whose character is outside cs (0 if none)
RECURSIVE SkipBack(_, _, _)
SkipBack(s, i, cs) ==
  IF i >= 1 /\ s[i] \in cs THEN SkipBack(s, i - 1, cs) ELSE i

\* s.trim().length
trimLength(s) ==
  LET first == SkipWhile(s, 1, WhiteSpace)
      last == SkipBack(s, Len(s), WhiteSpace)
  IN IF first > Len(s) THEN 0 ELSE last - first + 1

\* `v` in a condition
Truthy(v) ==
  CASE v.k = "number" -> v.num # 0
    [] v.k = "string" -> Len(v.s) > 0
    [] v.k = "boolean" -> v.num = 1
    [] OTHER -> FALSE

\* WholeWordMatches without the word boundaries
WholeWordMatches_Substring(s, word, ignoreCase) ==
  LET t == IF ignoreCase THEN toLowerCase(s) ELSE s
  IN {i \in 1..Len(s) : OccursAt(t, word, i)}

\* the matches of /\bword\b/g in s (/gi when ignoreCase), word made of \w
WholeWordMatches(s, word, ignoreCase) ==
  LET t == IF ignoreCase THEN toLowerCase(s) ELSE s
  IN {i \in 1..Len(s) :
        /\ OccursAt(t, word, i)
        /\ (i = 1 \/ s[i - 1] \notin WordChars)
        /\ (i + Len(word) > Len(s) \/ s[i + Len(word)] \notin WordChars)}

(***************************************************************************)
(* Compliance checker (lib/templates.js)                                   *)
(***************************************************************************)
\* text.trim().split(/\s+/).filter(w => w.length > 0).length: the number of
\* maximal runs of non-white-space characters
countWords(text) ==
  IF ~Truthy(text) THEN 0
  ELSE Cardinality({i \in 1..Len(text.s) :
                      /\ text.s[i] \notin WhiteSpace
                      /\ (i = 1 \/ text.s[i - 1] \in WhiteSpace)})

\* estimatePages rounding to the nearest page
estimatePages_Round(text) == MathRound(Num(countWords(text), 300)).num

estimatePages(text) == MathCeil(Num(countWords(text), 300)).num

\* the entry of a sections map under a key, undefined when there is none
Lookup(sections, key) ==
  IF \E i \in 1..Len(sections.entries) : sections.entries[i].key = key
  THEN sections.entries[CHOOSE i \in 1..Len(sections.entries) :
                          sections.entries[i].key = key].value
  ELSE Undefined

\* Object.keys(sections).find(k => k includes name or name includes k),
\* case-insensitively: the first such key, <<>> standing for "none"
FuzzyKey(sections, sectionName) ==
  LET hit(i) ==
        LET k == toLowerCase(sections.entries[i].key)
            n == toLowerCase(sectionName)
        IN includes(k, n) \/ includes(n, k)
      hits == {i \in 1..Len(sections.entries) : hit(i)}
  IN IF hits = {} THEN <<>>
     ELSE sections.entries[CHOOSE i \in hits : \A j \in hits : i <= j].key

\* where the heading pattern
\*   (?:^|\n)#+\s*(?:\d+\.?\s*)?NAME   (flag i)
\* can have NAME start when its #+ starts at index h of s
NameStarts(s, h, sectionName) ==
  LET afterHashes == (h + 1)..SkipWhile(s, h, {"#"})
      afterSpace == UNION {a..SkipWhile(s, a, WhiteSpace) : a \in afterHashes}
      afterDigits == UNION {(b + 1)..SkipWhile(s, b, Digits) : b \in afterSpace}
      afterDot ==
        afterDigits \cup {c + 1 : c \in {x \in afterDigits : x <= Len(s) /\ s[x] = "."}}
      afterNumber == UNION {d..SkipWhile(s, d, WhiteSpace) : d \in afterDot}
  IN {q \in afterSpace \cup afterNumber :
        OccursAt(toLowerCase(s), toLowerCase(sectionName), q)}

\* the lookahead (?=\n#+\s|$) holds at index e of s
HeadingAhead(s, e) ==
  \/ e = Len(s) + 1
  \/ /\ e + 1 <= Len(s) /\ s[e] = "\n" /\ s[e + 1] = "#"
     /\ LET x == SkipWhile(s, e + 1, {"#"})
        IN x <= Len(s) /\ s[x] \in WhiteSpace

\* fullText.match(pattern): the leftmost match, null when there is none.
\* A name that starts with a letter can start at one index only after a
\* given heading marker, so the choice of q below is unique for such names.
headingMatch(s, sectionName) ==
  LET hashesAt(p) ==
        IF p = 1 /\ s[1] = "#" THEN 1
        ELSE IF s[p] = "\n" /\ p + 1 <= Len(s) /\ s[p + 1] = "#" THEN p + 1
        ELSE 0
      starts == {p \in 1..Len(s) :
                   hashesAt(p) # 0 /\ NameStarts(s, hashesAt(p), sectionName) # {}}
  IN IF starts = {} THEN Null
     ELSE LET p == CHOOSE x \in starts : \A y \in starts : x <= y
              q == CHOOSE x \in NameStarts(s, hashesAt(p), sectionName) : TRUE
              from == q + Len(sectionName)
              ends == {e \in from..(Len(s) + 1) : HeadingAhead(s, e)}
              e == CHOOSE x \in ends : \A y \in ends : x <= y
          IN Str(SubSeq(s, p, e - 1))

findSection(sections, fullText, sectionName) ==
  LET direct == Lookup(sections, sectionName)
      key == FuzzyKey(sections, sectionName)
  IN IF sections.k = "object" /\ Truthy(direct) THEN direct
     ELSE IF sections.k = "object" /\ key # <<>> THEN Lookup(sections, key)
     ELSE IF Truthy(fullText) THEN headingMatch(fullText.s, sectionName)
     ELSE Null

\* one entry of results; args are the values its message is built from
Finding(check, section, part, status, args) ==
  [check |-> check, section |-> section, part |-> part, status |-> status,
   args |-> args]

NoSection == <<>>

\* budgetMaximum whose warning starts at 95% of the maximum itself
budgetMaximum_WarnAtShare(scheme, budget) ==
  IF ~Truthy(Field(scheme, "maxAmount")) THEN <<>>
  ELSE LET budgetNum == OrElse(parseFloat(budget), Whole(0))
           status ==
             IF Less(scheme.maxAmount, budgetNum) THEN "fail"
             ELSE IF ~Less(budgetNum, Mul(scheme.maxAmount, Num(95, 100)))
             THEN "warn" ELSE "pass"
       IN <<Finding("Budget Maximum", NoSection, "", status,
                    <<budgetNum, scheme.maxAmount>>)>>

\* if (scheme.maxAmount) { ... }
budgetMaximum(scheme, budget) ==
  IF ~Truthy(Field(scheme, "maxAmount")) THEN <<>>
  ELSE LET budgetNum == OrElse(parseFloat(budget), Whole(0))
           status ==
             IF Less(scheme.maxAmount, budgetNum) THEN "fail"
             ELSE IF Less(Mul(scheme.maxAmount, Num(95, 100)), budgetNum)
             THEN "warn" ELSE "pass"
       IN <<Finding("Budget Maximum", NoSection, "", status,
                    <<budgetNum, scheme.maxAmount>>)>>

\* budgetMinimum that fails a budget of 0 as well
budgetMinimum_ZeroFails(scheme, budget) ==
  IF ~Truthy(Field(scheme, "minAmount")) THEN <<>>
  ELSE LET budgetNum == OrElse(parseFloat(budget), Whole(0))
       IN IF Less(budgetNum, scheme.minAmount)
          THEN <<Finding("Budget Minimum", NoSection, "", "fail",
                         <<budgetNum, scheme.minAmount>>)>>
          ELSE <<Finding("Budget Minimum", NoSection, "", "pass",
                         <<scheme.minAmount>>)>>

\* if (scheme.minAmount) { ... }
budgetMinimum(scheme, budget) ==
  IF ~Truthy(Field(scheme, "minAmount")) THEN <<>>
  ELSE LET budgetNum == OrElse(parseFloat(budget), Whole(0))
       IN IF Less(budgetNum, scheme.minAmount) /\ Less(Whole(0), budgetNum)
          THEN <<Finding("Budget Minimum", NoSection, "", "fail",
                         <<budgetNum, scheme.minAmount>>)>>
          ELSE IF ~Less(budgetNum, scheme.minAmount)
          THEN <<Finding("Budget Minimum", NoSection, "", "pass",
                         <<scheme.minAmount>>)>>
          ELSE <<>>

\* if (scheme.maxDuration) { ... }
durationMaximum(scheme, duration) ==
  IF ~Truthy(Field(scheme, "maxDuration")) THEN <<>>
  ELSE LET dur == OrElse(parseFloat(duration), Whole(0))
       IN IF Less(scheme.maxDuration, dur)
          THEN <<Finding("Duration", NoSection, "", "fail",
                         <<dur, scheme.maxDuration>>)>>
          ELSE IF Less(Whole(0), dur)
          THEN <<Finding("Duration", NoSection, "", "pass",
                         <<dur, scheme.maxDuration>>)>>
          ELSE <<>>

\* durationMinimum with a 'pass' for a duration that meets the minimum
durationMinimum_PassWhenMet(scheme, duration) ==
  IF ~Truthy(Field(scheme, "minDuration")) THEN <<>>
  ELSE LET dur == OrElse(parseFloat(duration), Whole(0))
       IN IF Less(dur, scheme.minDuration) /\ Less(Whole(0), dur)
          THEN <<Finding("Duration Minimum", NoSection, "", "fail",
                         <<dur, scheme.minDuration>>)>>
          ELSE IF ~Less(dur, scheme.minDuration)
          THEN <<Finding("Duration Minimum", NoSection, "", "pass",
                         <<dur, scheme.minDuration>>)>>
          ELSE <<>>

\* if (scheme.minDuration) { ... }
durationMinimum(scheme, duration) ==
  IF ~Truthy(Field(scheme, "minDuration")) THEN <<>>
  ELSE LET dur == OrElse(parseFloat(duration), Whole(0))
       IN IF Less(dur, scheme.minDuration) /\ Less(Whole(0), dur)
          THEN <<Finding("Duration Minimum", NoSection, "", "fail",
                         <<dur, scheme.minDuration>>)>>
          ELSE <<>>

\* wordLimit whose warning starts at 90% of the limit itself
wordLimit_WarnAtShare(reqSection, sectionText) ==
  IF ~(Truthy(Field(reqSection, "maxWords")) /\ Truthy(sectionText)) THEN <<>>
  ELSE LET wc == Whole(countWords(sectionText))
           f(status) == <<Finding("Section", reqSection.name.s, "Word Limit",
                                  status, <<wc, reqSection.maxWords>>)>>
       IN IF Less(reqSection.maxWords, wc) THEN f("fail")
          ELSE IF Less(Whole(0), wc)
                  /\ ~Less(wc, Mul(reqSection.maxWords, Num(9, 10)))
          THEN f("warn")
          ELSE IF Less(Whole(0), wc) THEN f("pass")
          ELSE <<>>

\* if (reqSection.maxWords && sectionText) { ... }
wordLimit(reqSection, sectionText) ==
  IF ~(Truthy(Field(reqSection, "maxWords")) /\ Truthy(sectionText)) THEN <<>>
  ELSE LET wc == Whole(countWords(sectionText))
           f(status) == <<Finding("Section", reqSection.name.s, "Word Limit",
                                  status, <<wc, reqSection.maxWords>>)>>
       IN IF Less(reqSection.maxWords, wc) THEN f("fail")
          ELSE IF Less(Mul(reqSection.maxWords, Num(9, 10)), wc) THEN f("warn")
          ELSE IF Less(Whole(0), wc) THEN f("pass")
          ELSE <<>>

pageLimit(reqSection, sectionText) ==
  IF ~(Truthy(Field(reqSection, "maxPages")) /\ Truthy(sectionText)) THEN <<>>
  ELSE LET pages == Whole(estimatePages(sectionText))
       IN <<Finding("Section", reqSection.name.s, "Page Limit",
                    IF Less(reqSection.maxPages, pages) THEN "fail" ELSE "pass",
                    <<pages, reqSection.maxPages>>)>>

\* sectionFindings that takes every declared section for a required one
sectionFindings_AllRequired(reqSection, sectionText) ==
  IF ~Truthy(sectionText) \/ trimLength(sectionText.s) < 50
  THEN <<Finding("Section", reqSection.name.s, "", "fail", <<>>)>>
  ELSE <<Finding("Section", reqSection.name.s, "Present", "pass", <<>>)>>
       \o wordLimit(reqSection, sectionText)
       \o pageLimit(reqSection, sectionText)

\* sectionFindings without the `continue` after a failed required section
sectionFindings_NoContinue(reqSection, sectionText) ==
  (IF ~Truthy(Field(reqSection, "required")) THEN <<>>
   ELSE IF ~Truthy(sectionText) \/ trimLength(sectionText.s) < 50
   THEN <<Finding("Section", reqSection.name.s, "", "fail", <<>>)>>
   ELSE <<Finding("Section", reqSection.name.s, "Present", "pass", <<>>)>>)
    \o wordLimit(reqSection, sectionText)
    \o pageLimit(reqSection, sectionText)

\* the findings of one iteration of the loop, sectionText being resolved
sectionFindings(reqSection, sectionText) ==
  IF Truthy(Field(reqSection, "required"))
       /\ (~Truthy(sectionText) \/ trimLength(sectionText.s) < 50)
  THEN <<Finding("Section", reqSection.name.s, "", "fail", <<>>)>>
  ELSE (IF Truthy(Field(reqSection, "required"))
        THEN <<Finding("Section", reqSection.name.s, "Present", "pass", <<>>)>>
        ELSE <<>>)
       \o wordLimit(reqSection, sectionText)
       \o pageLimit(reqSection, sectionText)

\* one iteration of the loop over scheme.sections
sectionChecks(reqSection, sections, proposalText) ==
  sectionFindings(reqSection,
                  findSection(sections, proposalText, reqSection.name.s))

\* the findings of scheme.sections[1..n] in order
RECURSIVE allSectionChecks(_, _, _, _)
allSectionChecks(reqSections, n, sections, proposalText) ==
  IF n = 0 THEN <<>>
  ELSE allSectionChecks(reqSections, n - 1, sections, proposalText)
         \o sectionChecks(reqSections[n], sections, proposalText)

\* Object.values(sections || {}).join('\n')
RECURSIVE joinValues(_, _)
joinValues(entries, n) ==
  IF n = 0 THEN <<>>
  ELSE IF n = 1 THEN entries[1].value.s
  ELSE joinValues(entries, n - 1) \o <<"\n">> \o entries[n].value.s

vagueTerms ==
  <<<<"v", "e", "r", "y">>, <<"q", "u", "i", "t", "e">>,
    <<"s", "o", "m", "e", "w", "h", "a", "t">>, <<"f", "a", "i", "r", "l", "y">>,
    <<"r", "a", "t", "h", "e", "r">>,
    <<"e", "x", "t", "r", "e", "m", "e", "l", "y">>>>

\* vagueTerms.reduce(...) over the first n terms
RECURSIVE vagueCount(_, _)
vagueCount(s, n) ==
  IF n = 0 THEN 0
  ELSE vagueCount(s, n - 1) + Cardinality(WholeWordMatches(s, vagueTerms[n], TRUE))

\* textChecks over proposalText alone
textChecks_NoFallback(proposalText, sections) ==
  LET firstPersonCount ==
        Cardinality(WholeWordMatches(proposalText.s, <<"I">>, FALSE))
      vague == vagueCount(proposalText.s, Len(vagueTerms))
  IN IF ~Truthy(proposalText) THEN <<>>
     ELSE <<Finding("Total Word Count", NoSection, "", "pass",
                    <<Whole(countWords(proposalText))>>)>>
          \o (IF firstPersonCount > 10
              THEN <<Finding("First Person Usage", NoSection, "", "warn",
                             <<Whole(firstPersonCount)>>)>>
              ELSE <<>>)
          \o (IF vague > 15
              THEN <<Finding("Vague Language", NoSection, "", "warn",
                             <<Whole(vague)>>)>>
              ELSE <<>>)

\* const fullText = ...; if (fullText) { ... }
textChecks(proposalText, sections) ==
  LET fullText ==
        IF Truthy(proposalText) THEN proposalText
        ELSE Str(joinValues(sections.entries, Len(sections.entries)))
      firstPersonCount == Cardinality(WholeWordMatches(fullText.s, <<"I">>, FALSE))
      vague == vagueCount(fullText.s, Len(vagueTerms))
  IN IF ~Truthy(fullText) THEN <<>>
     ELSE <<Finding("Total Word Count", NoSection, "", "pass",
                    <<Whole(countWords(fullText))>>)>>
          \o (IF firstPersonCount > 10
              THEN <<Finding("First Person Usage", NoSection, "", "warn",
                             <<Whole(firstPersonCount)>>)>>
              ELSE <<>>)
          \o (IF vague > 15
              THEN <<Finding("Vague Language", NoSection, "", "warn",
                             <<Whole(vague)>>)>>
              ELSE <<>>)

\* eligibilityNote as a 'pass'
eligibilityNote_Pass(scheme) ==
  IF Truthy(Field(scheme, "eligibility"))
  THEN <<Finding("Eligibility", NoSection, "", "pass", <<scheme.eligibility>>)>>
  ELSE <<>>

\* if (scheme.eligibility) { ... }
eligibilityNote(scheme) ==
  IF Truthy(Field(scheme, "eligibility"))
  THEN <<Finding("Eligibility", NoSection, "", "warn", <<scheme.eligibility>>)>>
  ELSE <<>>

attachmentNames ==
  {<<"C", "V">>,
   <<"L", "e", "t", "t", "e", "r", " ", "o", "f", " ", "S", "u", "p", "p", "o", "r", "t">>,
   <<"E", "t", "h", "i", "c", "s", " ", "A", "p", "p", "r", "o", "v", "a", "l">>,
   <<"D", "a", "t", "a", " ", "M", "a", "n", "a", "g", "e", "m", "e", "n", "t", " ",
     "P", "l", "a", "n">>}

\* isAttachment comparing the names as they are written
isAttachment_CaseSensitive(reqSection) ==
  \E a \in attachmentNames : includes(reqSection.name.s, a)

\* [...].some(a => s.name.toLowerCase().includes(a.toLowerCase()))
isAttachment(reqSection) ==
  \E a \in attachmentNames :
    includes(toLowerCase(reqSection.name.s), toLowerCase(a))

\* scheme.sections.filter(isAttachment).map(s => s.name), over sections[1..n]
RECURSIVE attachmentSections(_, _)
attachmentSections(reqSections, n) ==
  IF n = 0 THEN <<>>
  ELSE attachmentSections(reqSections, n - 1)
         \o (IF isAttachment(reqSections[n]) THEN <<reqSections[n].name>> ELSE <<>>)

attachmentReminder(scheme) ==
  LET reqSections == Field(scheme, "sections")
      names == attachmentSections(reqSections, Len(reqSections))
  IN IF "sections" \in DOMAIN scheme /\ Len(names) > 0
     THEN <<Finding("Required Attachments", NoSection, "", "warn", names)>>
     ELSE <<>>

\* results.some(r => r.status === status)
hasStatus(results, status) ==
  \E i \in 1..Len(results) : results[i].status = status

\* overallOf with the warning test ahead of the failure test
overallOf_WarnFirst(results) ==
  IF \E i \in 1..Len(results) : results[i].status = "warn" THEN "warn"
  ELSE IF \E i \in 1..Len(results) : results[i].status = "fail" THEN "fail"
  ELSE "pass"

\* hasFailures ? 'fail' : hasWarnings ? 'warn' : 'pass'
overallOf(results) ==
  IF hasStatus(results, "fail") THEN "fail"
  ELSE IF hasStatus(results, "warn") THEN "warn" ELSE "pass"

\* schemeAt falling back to the first scheme when the index selects none
schemeAt_Fallback(funderData, schemeIndex) ==
  LET schemes == Field(funderData, "schemes")
  IN IF "schemes" \notin DOMAIN funderData THEN NullItem
     ELSE IF schemeIndex.k = "number" /\ schemeIndex.den = 1
             /\ schemeIndex.num >= 0 /\ schemeIndex.num < Len(schemes.items)
     THEN schemes.items[schemeIndex.num + 1]
     ELSE IF Len(schemes.items) > 0 THEN schemes.items[1]
     ELSE NullItem

\* funderData.schemes && funderData.schemes[schemeIndex]
schemeAt(funderData, schemeIndex) ==
  LET schemes == Field(funderData, "schemes")
  IN IF "schemes" \notin DOMAIN funderData THEN NullItem
     ELSE IF schemeIndex.k = "number" /\ schemeIndex.den = 1
             /\ schemeIndex.num >= 0 /\ schemeIndex.num < Len(schemes.items)
     THEN schemes.items[schemeIndex.num + 1]
     ELSE NullItem

\* return { overall, results }
verdict(results) == [overall |-> overallOf(results), results |-> results]

\* schemeChecks with the text checks ahead of the section checks
schemeChecks_TextFirst(proposalText, sections, scheme, budget, duration) ==
  verdict(
    budgetMaximum(scheme, budget) \o budgetMinimum(scheme, budget)
      \o durationMaximum(scheme, duration) \o durationMinimum(scheme, duration)
      \o textChecks(proposalText, sections)
      \o (IF "sections" \in DOMAIN scheme
          THEN allSectionChecks(scheme.sections, Len(scheme.sections), sections,
                                proposalText)
          ELSE <<>>)
      \o eligibilityNote(scheme)
      \o attachmentReminder(scheme))

\* the checks that run once a scheme is resolved
schemeChecks(proposalText, sections, scheme, budget, duration) ==
  verdict(
    budgetMaximum(scheme, budget) \o budgetMinimum(scheme, budget)
      \o durationMaximum(scheme, duration) \o durationMinimum(scheme, duration)
      \o (IF "sections" \in DOMAIN scheme
          THEN allSectionChecks(scheme.sections, Len(scheme.sections), sections,
                                proposalText)
          ELSE <<>>)
      \o textChecks(proposalText, sections)
      \o eligibilityNote(scheme)
      \o attachmentReminder(scheme))

\* the early return when scheme is falsy, the checks otherwise
checksFor(proposalText, sections, scheme, budget, duration) ==
  IF scheme.k # "object"
  THEN [overall |-> "fail",
        results |-> <<Finding("Scheme Selection", NoSection, "", "fail", <<>>)>>]
  ELSE schemeChecks(proposalText, sections, scheme.f, budget, duration)

runComplianceChecks(proposalText, sections, funderData, schemeIndex, budget, duration) ==
  checksFor(proposalText, sections, schemeAt(funderData, schemeIndex), budget,
            duration)

(***************************************************************************)
(* Request bodies of POST /api/budget/calculate                            *)
(***************************************************************************)
\* most items a category array carries in the roll-up bodies
MaxItems == 2

\* a key that is missing or carries one of vals
Opt(key, vals) == {<<>>} \cup {key :> v : v \in vals}

SeqsUpTo(S, n) == UNION {[1..m -> S] : m \in 0..n}

S_abc == Str(<<"a", "b", "c">>)

S_empty == Str(<<>>)

S_35000 == Str(<<"3", "5", "0", "0", "0">>)

S_50 == Str(<<"5", "0">>)

S_12_5 == Str(<<" ", "1", "2", ".", "5", "x">>)

S_PI == Str(<<"P", "I">>)

SalaryValues == {Whole(0), Whole(40000), Whole(1000), S_abc}

FteValues == {Whole(0), Whole(50), Whole(100), S_abc, S_50}

MonthsValues == {Whole(0), Whole(12), Whole(7)}

OnCostValues == {Whole(0), Num(1, 4), Num(3, 10), S_abc}

CostValues == {Whole(0), Whole(250), Num(1999, 100), Num(-5, 1), S_abc, S_12_5}

TripValues == {Whole(0), Whole(1), Whole(3), S_abc}

StaffItems ==
  {Obj(a @@ b @@ c @@ d) :
     a \in Opt("salary", SalaryValues), b \in Opt("fte", FteValues),
     c \in Opt("months", MonthsValues), d \in Opt("onCostRate", OnCostValues)}

\* staff items with a descriptive field and other kinds of non-numeric values
NamedStaffItems ==
  {Obj(a @@ b @@ c @@ [name |-> S_PI]) :
     a \in Opt("salary", {Whole(1000), S_35000, Null}),
     b \in Opt("fte", {Whole(50), S_abc, S_50}),
     c \in Opt("months", {Whole(7), S_empty, True})}

TravelItems ==
  {Obj(a @@ b @@ c) :
     a \in Opt("costPerTrip", CostValues \cup {Whole(500)}),
     b \in Opt("numTrips", TripValues),
     c \in Opt("description", {S_abc})}

CostItems ==
  {Obj(a @@ b) : a \in Opt("cost", CostValues), b \in Opt("description", {S_abc})}

\* items that already carry the keys the engine writes
EchoItems ==
  {Obj(a @@ b @@ [salary |-> Whole(1000), months |-> Whole(7)]) :
     a \in Opt("total", {Whole(1), S_abc}),
     b \in Opt("annualCost", {Whole(2)})}

CostModels == {"fEC", "full", "custom", "FEC"}

RateValues == {Whole(0), Whole(80), Num(25, 2), Whole(150), Whole(-10)}

Params ==
  {a @@ b @@ c @@ d :
     a \in Opt("costModel", CostModels), b \in Opt("fecRate", RateValues),
     c \in Opt("overheadRate", {Whole(0), Num(35, 2)}),
     d \in Opt("customRate", {Whole(50), Num(75, 2)})}

\* one item in one category, default parameters
ItemBodies ==
  {"staff" :> Arr(<<i>>) : i \in StaffItems \cup NamedStaffItems \cup EchoItems}
    \cup {"travel" :> Arr(<<i>>) : i \in TravelItems}
    \cup {cat :> Arr(<<i>>) :
            cat \in Categories \ {"staff", "travel"}, i \in CostItems}

\* every combination of the cost-model parameters over a few line-item sets
ParamBodies ==
  {p @@ b :
     p \in Params,
     b \in {[staff |-> Arr(<<Obj([salary |-> Whole(40000), fte |-> Whole(100),
                                  months |-> Whole(12),
                                  onCostRate |-> Num(1, 4)])>>)],
            [staff |-> Arr(<<Obj([salary |-> Whole(1000), months |-> Whole(7)])>>),
             travel |-> Arr(<<Obj([costPerTrip |-> Whole(500),
                                   numTrips |-> Whole(3)])>>),
             other |-> Arr(<<Obj([cost |-> Num(1999, 100)])>>)],
            [equipment |-> Arr(<<Obj([cost |-> Num(1, 100)])>>)]}}

RollStaff == {Obj([salary |-> Whole(1000), months |-> Whole(7)])}

RollTravel ==
  {Obj([costPerTrip |-> Whole(500), numTrips |-> Whole(3)]),
   Obj([costPerTrip |-> Num(1999, 100)])}

RollCost == {Obj([cost |-> Num(1999, 100)])}

\* up to MaxItems items in four of the six categories, up to one in the rest
RollUpBodies ==
  {[staff |-> Arr(a), travel |-> Arr(b), equipment |-> Arr(c),
    consumables |-> Arr(d), other |-> Arr(e), subcontracting |-> Arr(f)] :
     a \in SeqsUpTo(RollStaff, MaxItems), b \in SeqsUpTo(RollTravel, MaxItems),
     c \in SeqsUpTo(RollCost, MaxItems), d \in SeqsUpTo(RollCost, 1),
     e \in SeqsUpTo(RollCost, MaxItems), f \in SeqsUpTo(RollCost, 1)}

\* bodies on which Array.prototype.map is called on null or over a null item
MalformedBodies ==
  {cat :> NullArr : cat \in Categories}
    \cup {cat :> Arr(<<NullItem>>) : cat \in Categories}
    \cup {[staff |-> Arr(<<Obj([salary |-> Whole(1000)]), NullItem>>)]}

\* items whose subtotals have half a penny: 0.005 twice over, 0.335 x 3 trips
RoundingBodies ==
  {[equipment |-> Arr(<<Obj([cost |-> Num(1, 200)]), Obj([cost |-> Num(1, 200)])>>),
    travel |-> Arr(<<Obj([costPerTrip |-> Num(67, 200), numTrips |-> Whole(3)])>>)]
     @@ a @@ b :
     a \in Opt("overheadRate", {Num(35, 2)}),
     b \in {<<>>, [costModel |-> "custom", customRate |-> Num(75, 2)]}}

BudgetBodies ==
  ItemBodies \cup ParamBodies \cup RollUpBodies \cup MalformedBodies
    \cup RoundingBodies

(***************************************************************************)
(* Funder files and request bodies of POST /api/compliance/check           *)
(***************************************************************************)
\* n copies of the word w, a space after each
Rep(w, n) ==
  [i \in 1..(n * (Len(w) + 1)) |->
     IF i % (Len(w) + 1) = 0 THEN " " ELSE w[i % (Len(w) + 1)]]

N_Summary == <<"S", "u", "m", "m", "a", "r", "y">>

N_Aims == <<"A", "i", "m", "s">>

N_CV == <<"C", "V">>

N_Ethics == <<"e", "t", "h", "i", "c", "s", " ", "a", "p", "p", "r", "o", "v", "a", "l">>

W_word == <<"w", "o", "r", "d">>

W_very == <<"V", "e", "r", "y">>

Heading(name) == <<"#", "#", " ">> \o name \o <<"\n">>

\* scheme 0 declares every limit; scheme 1 one optional section; scheme 2 nothing
SchemeFull ==
  [maxAmount |-> Whole(100000), minAmount |-> Whole(1000),
   maxDuration |-> Whole(36), minDuration |-> Whole(6),
   eligibility |-> Str(<<"P", "h", "D">>),
   sections |->
     <<[name |-> Str(N_Summary), required |-> True, maxWords |-> Whole(10)],
       [name |-> Str(N_Aims), required |-> True, maxPages |-> Whole(1)],
       [name |-> Str(N_CV)],
       [name |-> Str(N_Ethics), maxWords |-> Whole(20)]>>]

SchemeLight ==
  [maxAmount |-> Whole(100000),
   sections |-> <<[name |-> Str(N_Summary), maxWords |-> Whole(20)],
                  [name |-> Str(N_Aims), maxPages |-> Whole(1)]>>]

SchemeEmpty == <<>>

\* a scheme that declares its eligibility text and nothing else
SchemeEligible == [eligibility |-> Str(<<"U", "K">>)]

N_Letter == <<"L", "e", "t", "t", "e", "r", " ", "o", "f", " ", "s", "u", "p", "p", "o", "r", "t">>

N_Impact == <<"I", "m", "p", "a", "c", "t">>

N_DMP == <<"D", "a", "t", "a", " ", "m", "a", "n", "a", "g", "e", "m", "e", "n", "t", " ", "p", "l", "a", "n", " ", "(", "D", "M", "P", ")">>

N_CVs == <<"A", "p", "p", "l", "i", "c", "a", "n", "t", " ", "C", "V", "s">>

\* a scheme with small limits: an optional section with a word limit, a
\* required section with both limits, attachments around a plain section
SchemeSmall ==
  [maxAmount |-> Whole(1000), minAmount |-> Whole(200),
   maxDuration |-> Whole(12), minDuration |-> Whole(3),
   sections |->
     <<[name |-> Str(N_Summary), maxWords |-> Whole(100)],
       [name |-> Str(N_Aims), required |-> True, maxWords |-> Whole(10),
        maxPages |-> Whole(1)],
       [name |-> Str(N_Letter)],
       [name |-> Str(N_Impact)],
       [name |-> Str(N_CVs)],
       [name |-> Str(N_DMP)]>>]

\* FUNDERS_DIR: funderId -> the parsed content of <funderId>.json
FunderFiles ==
  [ukri |-> [schemes |-> Arr(<<Obj(SchemeFull), Obj(SchemeLight), Obj(SchemeEmpty)>>)],
   small |-> [schemes |-> Arr(<<Obj(SchemeSmall)>>)],
   bare |-> [name |-> Str(<<"b">>)],
   holes |-> [schemes |-> Arr(<<NullItem, Obj(SchemeLight), Obj(SchemeEligible)>>)]]

NoSections == [k |-> "undefined", entries |-> <<>>]

SectionMap(entries) == [k |-> "object", entries |-> entries]

T_empty == Str(<<>>)

T_short == Str(Heading(N_Aims) \o Rep(W_word, 3))

T_long ==
  Str(Heading(N_Summary) \o Rep(W_word, 12) \o <<"\n">> \o Heading(N_Aims)
        \o Rep(W_word, 9) \o Rep(<<"I">>, 11) \o Rep(W_very, 16))

T_numbered ==
  Str(Rep(W_word, 12) \o <<"\n">> \o <<"#", " ", "1", ".", " ">> \o N_Summary
        \o <<"\n">> \o Rep(W_word, 10) \o Rep(<<"I">>, 10))

ProposalTexts == {T_empty, T_short, T_long, T_numbered}

M_empty == SectionMap(<<>>)

M_summary == SectionMap(<<[key |-> N_Summary, value |-> Str(Rep(W_word, 11))]>>)

M_pages ==
  SectionMap(<<[key |-> <<"a", "i", "m", "s", " ", "1">>,
                value |-> Str(Rep(W_word, 301))],
               [key |-> N_Summary, value |-> Str(Rep(W_word, 10))]>>)

M_blank ==
  SectionMap(<<[key |-> N_Summary, value |-> Str(<<>>)],
               [key |-> N_Ethics, value |-> Str(Rep(W_very, 19))]>>)

SectionMaps == {M_empty, M_summary, M_pages, M_blank}

\* every text and section map against each scheme of funder ukri
TextBodies ==
  {[funderId |-> "ukri"] @@ a @@ b @@ d @@ e @@ f :
     a \in Opt("proposalText", ProposalTexts),
     b \in Opt("sections", SectionMaps),
     d \in Opt("schemeIndex", {Whole(1), Whole(2)}),
     e \in Opt("budget", {Whole(100001)}),
     f \in Opt("duration", {Whole(40)})}

\* every budget and duration against the schemes of funder ukri
LimitBodies ==
  {[funderId |-> "ukri"] @@ a @@ d @@ e @@ f :
     a \in Opt("proposalText", {T_long}),
     d \in Opt("schemeIndex", {Whole(1)}),
     e \in Opt("budget", {Whole(50000), Whole(96000), Whole(100001), Whole(500), S_abc}),
     f \in Opt("duration", {Whole(3), Whole(24), Whole(40)})}

\* every funder file and scheme index
SchemeBodies ==
  {a @@ b @@ c @@ d @@ e @@ f :
     a \in Opt("proposalText", {T_long}),
     b \in Opt("sections", {M_summary}),
     c \in Opt("funderId", {"ukri", "bare", "holes", "nofile"}),
     d \in Opt("schemeIndex", {Whole(0), Whole(1), Whole(2), Whole(3), Whole(-1), Null}),
     e \in Opt("budget", {Whole(100001)}),
     f \in Opt("duration", {Whole(40)})}

W_wordy == <<"w", "o", "r", "d", "y">>

W_paragraph == <<"p", "a", "r", "a", "g", "r", "a", "p", "h">>

S_960 == Str(<<"9", "6", "0">>)

\* texts of the optional section Summary (limit 100 words): blank, and
\* 90, 91, 100 and 101 words
SummaryTexts ==
  {Str(<<" ", " ">>)} \cup {Str(Rep(W_word, n)) : n \in {90, 91, 100, 101}}

\* texts of the required section Aims (limits 10 words, 1 page): 45 and 50
\* characters, the latter 49 once trimmed; 6, 10 and 11 words of 55
\* characters at least; 300 and 301 words
AimsTexts ==
  {Str(Rep(W_word, n)) : n \in {9, 10, 11, 300, 301}}
    \cup {Str(Rep(W_wordy, 10)), Str(Rep(W_paragraph, 6))}

\* the sections of scheme small, one of them varying at a time
SmallMaps ==
  {SectionMap(<<[key |-> N_Summary, value |-> t],
                [key |-> N_Aims, value |-> Str(Rep(W_paragraph, 6))]>>) :
     t \in SummaryTexts}
    \cup {SectionMap(<<[key |-> N_Summary, value |-> Str(Rep(W_word, 90))],
                       [key |-> N_Aims, value |-> t]>>) : t \in AimsTexts}
    \cup {SectionMap(<<[key |-> N_Summary, value |-> Str(Rep(W_word, 90))]>>)}

SectionBodies ==
  {[funderId |-> "small", sections |-> m] @@ a :
     m \in SmallMaps, a \in Opt("proposalText", {T_empty})}

\* budgets and durations around the limits of scheme small
AmountBodies ==
  {[funderId |-> "small"] @@ e @@ f :
     e \in Opt("budget", {Whole(0), Whole(-5), Whole(199), Whole(200), Whole(950),
                          Num(1901, 2), Whole(951), Whole(1000), Whole(1001),
                          S_960, S_abc}),
     f \in Opt("duration", {Whole(0), Whole(2), Whole(3), Whole(12), Whole(13)})}

W_It == <<"I", "t">>

W_every == <<"e", "v", "e", "r", "y">>

W_QUITE == <<"Q", "U", "I", "T", "E">>

W_rather == <<"r", "a", "t", "h", "e", "r">>

\* "I" 10 and 11 times among words that start with I; the vague terms 15 and
\* 16 times in all, in either case, among words that contain one
StyleTexts ==
  {Str(Rep(<<"I">>, i) \o Rep(W_It, 3) \o Rep(W_very, v) \o Rep(W_QUITE, 4)
         \o Rep(W_rather, 1) \o Rep(W_every, 2)) :
     i \in {10, 11}, v \in {10, 11}}

\* a text as proposalText, and split over the values of a section map
StyleBodies ==
  {[funderId |-> "ukri", schemeIndex |-> Whole(2), proposalText |-> t] :
     t \in StyleTexts}
    \cup {[funderId |-> "ukri", schemeIndex |-> Whole(2),
           sections |-> SectionMap(<<[key |-> <<"a">>, value |-> Str(Rep(<<"I">>, 6))],
                                     [key |-> <<"b">>, value |-> t]>>)] @@ a :
            t \in {Str(Rep(<<"I">>, 4)), Str(Rep(<<"I">>, 5))},
            a \in Opt("proposalText", {T_empty, Null})}

ComplianceBodies ==
  TextBodies \cup LimitBodies \cup SchemeBodies \cup SectionBodies
    \cup AmountBodies \cup StyleBodies

(***************************************************************************)
(* The server: one request at a time                                       *)
(***************************************************************************)
NoRequest == [route |-> "none"]

NoResponse == [status |-> 0]

NotRestoring == [pc |-> "idle"]

\* state.currentProposal: null
NoProposal == [k |-> "null"]

\* a response nothing has been written to
NoRes == [headersSent |-> FALSE, wire |-> <<>>, ended |-> FALSE]

NoGeneration == [pc |-> "idle", produced |-> <<>>, answered |-> FALSE]

NotReading == [pc |-> "idle", read |-> 0, fullText |-> <<>>, completed |-> <<>>]

ServerStarted ==
  /\ request = NoRequest /\ response = NoResponse /\ calls = <<>>
  /\ versions = <<>> /\ restoring = NotRestoring

NothingInFlight ==
  /\ saves = <<>> /\ res = NoRes /\ generation = NoGeneration
  /\ reading = NotReading

Init ==
  /\ ServerStarted
  /\ proposals = <<>> /\ issued = 0 /\ createdAtOf = <<>>
  /\ state = [currentProposal |-> NoProposal, unsavedChanges |-> FALSE]
  /\ NothingInFlight

\* a client posts to /api/budget/calculate
PostBudgetCalculate ==
  /\ request = NoRequest
  /\ \E body \in BudgetBodies : request' = [route |-> "budget", body |-> body]
  /\ response' = NoResponse
  /\ UNCHANGED besideRoutes

\* res.json(result), or res.status(500) from the catch when the call threw
budgetResponse(result) ==
  IF result.raised THEN [status |-> 500] ELSE [status |-> 200, json |-> result]

\* app.post('/api/budget/calculate')
BudgetCalculateHandler ==
  /\ request.route = "budget"
  /\ response = NoResponse
  /\ response' = budgetResponse(calculateBudget(request.body))
  /\ UNCHANGED request
  /\ UNCHANGED besideRoutes

\* the response has been sent
Finish ==
  /\ response # NoResponse
  /\ request' = NoRequest
  /\ response' = NoResponse
  /\ UNCHANGED besideRoutes

\* a client posts to /api/compliance/check
PostComplianceCheck ==
  /\ request = NoRequest
  /\ \E body \in ComplianceBodies :
       request' = [route |-> "compliance", body |-> body]
  /\ response' = NoResponse
  /\ UNCHANGED besideRoutes

\* the answer of app.post('/api/compliance/check') to a body: reading the
\* funder file throws when there is none, and the catch answers 500
checkAnswer(body, funderId) ==
  IF funderId \notin DOMAIN FunderFiles THEN [status |-> 500]
  ELSE [status |-> 200,
        json |-> runComplianceChecks(
                   Field(body, "proposalText"),
                   Default(body, "sections", NoSections),
                   FunderFiles[funderId],
                   Default(body, "schemeIndex", Whole(0)),
                   Default(body, "budget", Whole(0)),
                   Default(body, "duration", Whole(0)))]

complianceResponse(body) == checkAnswer(body, Default(body, "funderId", "undefined"))

\* app.post('/api/compliance/check')
ComplianceCheckHandler ==
  /\ request.route = "compliance"
  /\ response = NoResponse
  /\ response' = complianceResponse(request.body)
  /\ UNCHANGED request
  /\ UNCHANGED besideRoutes

Next ==
  \/ PostBudgetCalculate
  \/ BudgetCalculateHandler
  \/ PostComplianceCheck
  \/ ComplianceCheckHandler
  \/ Finish

Spec == Init /\ [][Next]_vars

(***************************************************************************)
(* The engines called over and over in one process                         *)
(***************************************************************************)
\* most calls of a process
MaxCalls == 3

CallBudgetBodies ==
  {[staff |-> Arr(<<Obj([salary |-> Whole(40000), months |-> Whole(12)])>>)],
   [travel |-> Arr(<<Obj([costPerTrip |-> Whole(500), numTrips |-> Whole(3)])>>),
    costModel |-> "full"],
   [staff |-> Null],
   <<>>}

CallComplianceBodies ==
  {[funderId |-> "small", budget |-> Whole(951), duration |-> Whole(2)],
   [funderId |-> "ukri", schemeIndex |-> Whole(1),
    proposalText |-> Str(Rep(<<"I">>, 11))],
   [funderId |-> "bare"],
   [funderId |-> "nofile"]}

\* engineCall with the results array of the checker shared between calls
engineCall_SharedResults(route, body, earlier) ==
  IF route = "budget" THEN budgetResponse(calculateBudget(body))
  ELSE IF /\ earlier # <<>>
          /\ earlier[Len(earlier)].route = "compliance"
          /\ earlier[Len(earlier)].out.status = 200
          /\ complianceResponse(body).status = 200
  THEN [status |-> 200,
        json |-> verdict(earlier[Len(earlier)].out.json.results
                           \o complianceResponse(body).json.results)]
  ELSE complianceResponse(body)

\* a route's call of its engine and the answer it sends; the calls made
\* earlier in the process are at hand, and neither engine reads any of them
\* (budget-calc.js and templates.js keep no variable outside their functions)
engineCall(route, body, earlier) ==
  IF route = "budget" THEN budgetResponse(calculateBudget(body))
  ELSE complianceResponse(body)

InitCalls == Init

\* one more call of calculateBudget through its route
CallBudgetCalculate ==
  /\ Len(calls) < MaxCalls
  /\ \E body \in CallBudgetBodies :
       calls' = Append(calls, [route |-> "budget", body |-> body,
                               out |-> engineCall("budget", body, calls)])
  /\ UNCHANGED besideCalls

\* one more call of runComplianceChecks through its route
CallComplianceCheck ==
  /\ Len(calls) < MaxCalls
  /\ \E body \in CallComplianceBodies :
       calls' = Append(calls, [route |-> "compliance", body |-> body,
                               out |-> engineCall("compliance", body, calls)])
  /\ UNCHANGED besideCalls

NextCalls == CallBudgetCalculate \/ CallComplianceCheck

SpecCalls == InitCalls /\ [][NextCalls]_vars

(***************************************************************************)
(* The proposal store: proposals and their versions                        *)
(*                                                                         *)
(* A stored proposal is a function from its keys to values.  Identifiers   *)
(* are the naturals in the order crypto.randomUUID() gives them out, so an *)
(* identifier is never given out twice.  new Date() reads 1 until the first *)
(* identifier has been given out and 2 from then on.                       *)
(* Each route is one step, its read and its write taken together, except   *)
(* the restore route, which is followed from one await to the next while   *)
(* other requests are served in between.                                   *)
(***************************************************************************)
\* most identifiers given out, to proposals and versions together
MaxIds == 3

Times == {IF issued = 0 THEN 1 ELSE 2}

\* a request body with a title only, and one that carries every key the
\* routes write themselves
PlainBody == [title |-> <<"a">>]

ForgedBody ==
  [title |-> <<"b">>, id |-> 0, createdAt |-> 0, versionId |-> 0,
   timestamp |-> 0, label |-> "mine", status |-> "submitted"]

ProposalBodies == {PlainBody, ForgedBody}

\* obj without the keys of a `delete`
Without(obj, keys) == [k \in DOMAIN obj \ keys |-> obj[k]]

\* req.body.status || 'draft', req.body.label || '', data.title || 'Untitled'
Or(obj, key, d) == IF key \in DOMAIN obj /\ obj[key] # "" THEN obj[key] ELSE d

\* POST /api/proposals: { ...req.body, id, createdAt: now, updatedAt: now, status }
created(body, id, now) ==
  [id |-> id, createdAt |-> now, updatedAt |-> now,
   status |-> Or(body, "status", "draft")] @@ body

\* updated with the createdAt of the body, when it has one
updated_TrustsBody(existing, body, id, now) ==
  [id |-> id, updatedAt |-> now] @@ body @@ existing

\* PUT /api/proposals/:id: { ...existing, ...req.body, id, createdAt, updatedAt }
updated(existing, body, id, now) ==
  [id |-> id, createdAt |-> existing.createdAt, updatedAt |-> now]
    @@ body @@ existing

\* duplicate: { ...data, id: newId, title: ... (Copy), createdAt, updatedAt, status }
duplicated(data, newId, now) ==
  [id |-> newId,
   title |-> Append(IF "title" \in DOMAIN data THEN data.title ELSE <<"Untitled">>,
                    "(Copy)"),
   createdAt |-> now, updatedAt |-> now, status |-> "draft"] @@ data

\* import: { ...data, id, createdAt, updatedAt, status } less versionId, timestamp
imported(data, id, now) ==
  Without([id |-> id, createdAt |-> now, updatedAt |-> now, status |-> "draft"]
            @@ data,
          {"versionId", "timestamp"})

\* a version: { ...proposalData, versionId, timestamp, label }
snapshot(proposalData, versionId, now, label) ==
  [versionId |-> versionId, timestamp |-> now, label |-> label] @@ proposalData

\* restored with the keys of the version left in
restored_KeepsVersionKeys(vData, id, now) == [id |-> id, updatedAt |-> now] @@ vData

\* restore: { ...vData, id, updatedAt } less versionId, timestamp, label
restored(vData, id, now) ==
  Without([id |-> id, updatedAt |-> now] @@ vData,
          {"versionId", "timestamp", "label"})

InitStore == Init

\* POST /api/proposals
CreateProposal ==
  /\ issued < MaxIds
  /\ \E body \in ProposalBodies, now \in Times :
       /\ proposals' = (issued + 1 :> created(body, issued + 1, now)) @@ proposals
       /\ createdAtOf' = (issued + 1 :> now) @@ createdAtOf
  /\ issued' = issued + 1
  /\ UNCHANGED <<versions, restoring>>
  /\ UNCHANGED besideStore

\* PUT /api/proposals/:id; an id without a file is answered 404
UpdateProposal ==
  /\ \E id \in DOMAIN proposals, body \in ProposalBodies, now \in Times :
       proposals' = [proposals EXCEPT ![id] = updated(proposals[id], body, id, now)]
  /\ UNCHANGED <<versions, issued, restoring, createdAtOf>>
  /\ UNCHANGED besideStore

\* DELETE /api/proposals/:id, the versions of the proposal with it
DeleteProposal ==
  /\ \E id \in DOMAIN proposals :
       /\ proposals' = Without(proposals, {id})
       /\ versions' = Without(versions, {v \in DOMAIN versions : versions[v].of = id})
  /\ UNCHANGED <<issued, restoring, createdAtOf>>
  /\ UNCHANGED besideStore

\* POST /api/proposals/:id/duplicate
DuplicateProposal ==
  /\ issued < MaxIds
  /\ \E id \in DOMAIN proposals, now \in Times :
       /\ proposals' =
            (issued + 1 :> duplicated(proposals[id], issued + 1, now)) @@ proposals
       /\ createdAtOf' = (issued + 1 :> now) @@ createdAtOf
  /\ issued' = issued + 1
  /\ UNCHANGED <<versions, restoring>>
  /\ UNCHANGED besideStore

\* POST /api/proposals/import, the body being a proposal exported earlier or
\* any other body
ImportProposal ==
  /\ issued < MaxIds
  /\ \E data \in ProposalBodies \cup {proposals[id] : id \in DOMAIN proposals},
        now \in Times :
       /\ proposals' = (issued + 1 :> imported(data, issued + 1, now)) @@ proposals
       /\ createdAtOf' = (issued + 1 :> now) @@ createdAtOf
  /\ issued' = issued + 1
  /\ UNCHANGED <<versions, restoring>>
  /\ UNCHANGED besideStore

\* POST /api/proposals/:id/versions
CreateVersion ==
  /\ issued < MaxIds
  /\ \E id \in DOMAIN proposals, body \in {<<>>, [label |-> "v1"]}, now \in Times :
       versions' =
         (issued + 1 :>
            [of |-> id,
             data |-> snapshot(proposals[id], issued + 1, now, Or(body, "label", ""))])
           @@ versions
  /\ issued' = issued + 1
  /\ UNCHANGED <<proposals, restoring, createdAtOf>>
  /\ UNCHANGED besideStore

\* POST /api/proposals/:id/versions/:versionId/restore arrives, for any
\* identifiers given out so far
RestoreRequest ==
  /\ restoring = NotRestoring
  /\ \E id \in 1..issued, versionId \in 1..issued :
       restoring' = [pc |-> "readVersion", id |-> id, versionId |-> versionId]
  /\ UNCHANGED <<proposals, versions, issued, createdAtOf>>
  /\ UNCHANGED besideStore

\* const vData = JSON.parse(await fs.readFile(<version file>)); the catch
\* answers 500 when the proposal has no such version
RestoreReadVersion ==
  /\ restoring.pc = "readVersion"
  /\ restoring' =
       IF /\ restoring.versionId \in DOMAIN versions
          /\ versions[restoring.versionId].of = restoring.id
       THEN [restoring EXCEPT !.pc = "readCurrent"]
              @@ [vData |-> versions[restoring.versionId].data]
       ELSE NotRestoring
  /\ UNCHANGED <<proposals, versions, issued, createdAtOf>>
  /\ UNCHANGED besideStore

\* const currentData = JSON.parse(await fs.readFile(<proposal file>))
RestoreReadCurrent ==
  /\ restoring.pc = "readCurrent"
  /\ restoring' =
       IF restoring.id \in DOMAIN proposals
       THEN [restoring EXCEPT !.pc = "saveCurrent"]
              @@ [currentData |-> proposals[restoring.id]]
       ELSE NotRestoring
  /\ UNCHANGED <<proposals, versions, issued, createdAtOf>>
  /\ UNCHANGED besideStore

\* await fs.writeFile(<autoVid file>, { ...currentData, versionId: autoVid, ... })
RestoreSaveCurrent ==
  /\ restoring.pc = "saveCurrent"
  /\ issued < MaxIds
  /\ \E now \in Times :
       versions' =
         (issued + 1 :>
            [of |-> restoring.id,
             data |-> snapshot(restoring.currentData, issued + 1, now,
                               "Auto-save before restore")])
           @@ versions
  /\ issued' = issued + 1
  /\ restoring' = [restoring EXCEPT !.pc = "overwrite"] @@ [autoVid |-> issued + 1]
  /\ UNCHANGED <<proposals, createdAtOf>>
  /\ UNCHANGED besideStore

\* await fs.writeFile(<proposal file>, restored); res.json(restored)
RestoreOverwrite ==
  /\ restoring.pc = "overwrite"
  /\ \E now \in Times :
       proposals' =
         (restoring.id :> restored(restoring.vData, restoring.id, now)) @@ proposals
  /\ restoring' = NotRestoring
  /\ UNCHANGED <<versions, issued, createdAtOf>>
  /\ UNCHANGED besideStore

NextStore ==
  \/ CreateProposal
  \/ UpdateProposal
  \/ DeleteProposal
  \/ DuplicateProposal
  \/ ImportProposal
  \/ CreateVersion
  \/ RestoreRequest
  \/ RestoreReadVersion
  \/ RestoreReadCurrent
  \/ RestoreSaveCurrent
  \/ RestoreOverwrite

SpecStore == InitStore /\ [][NextStore]_vars

(***************************************************************************)
(* The proposal editor of the client and its saves                         *)
(*                                                                         *)
(* One proposal is stored.  The editor opens it, the oninput and onchange  *)
(* handlers write to state.currentProposal, and saveProposal() runs on a   *)
(* click and on the 30-second timer; a call of saveProposal() is followed  *)
(* over its awaits: the PUT is sent, the server answers, the answer        *)
(* arrives.                                                                *)
(***************************************************************************)
\* most calls of saveProposal() waiting for fetch at a time
MaxSaves == 2

TheProposal == 1

Titles == {<<"a">>, <<"b">>, <<"c">>}

statusOptions == {"draft", "complete"}

InitEditor ==
  /\ ServerStarted
  /\ proposals = (TheProposal :> created(PlainBody, TheProposal, 1))
  /\ issued = TheProposal /\ createdAtOf = (TheProposal :> 1)
  /\ state = [currentProposal |-> NoProposal, unsavedChanges |-> FALSE]
  /\ NothingInFlight

\* loadAndRenderEditor: state.currentProposal = await resp.json()
OpenEditor ==
  /\ state.currentProposal = NoProposal
  /\ state' = [state EXCEPT !.currentProposal = proposals[TheProposal]]
  /\ UNCHANGED <<saves, proposals>>
  /\ UNCHANGED besideEditor

\* oninput="state.currentProposal.title=this.value;state.unsavedChanges=true"
EditTitle ==
  /\ state.currentProposal # NoProposal
  /\ \E title \in Titles :
       state' = [currentProposal |-> [state.currentProposal EXCEPT !.title = title],
                 unsavedChanges |-> TRUE]
  /\ UNCHANGED <<saves, proposals>>
  /\ UNCHANGED besideEditor

\* onchange="state.currentProposal.status=this.value;state.unsavedChanges=true"
EditStatus ==
  /\ state.currentProposal # NoProposal
  /\ \E status \in statusOptions :
       state' = [currentProposal |-> [state.currentProposal EXCEPT !.status = status],
                 unsavedChanges |-> TRUE]
  /\ UNCHANGED <<saves, proposals>>
  /\ UNCHANGED besideEditor

\* saveProposal() up to its fetch: the body is JSON.stringify(p) as p is now
saveProposal(st, waiting) ==
  IF st.currentProposal = NoProposal
  THEN waiting
  ELSE Append(waiting, [stage |-> "sent", body |-> st.currentProposal])

\* saveProposal() from `const updated = await resp.json()` on
saveProposal_Answered(st, answer) ==
  [currentProposal |-> answer, unsavedChanges |-> FALSE]

\* onclick="saveProposal()", and Ctrl+S
ClickSave ==
  /\ state.currentProposal # NoProposal
  /\ Len(saves) < MaxSaves
  /\ saves' = saveProposal(state, saves)
  /\ UNCHANGED <<state, proposals>>
  /\ UNCHANGED besideEditor

\* the callback of setInterval in startAutoSave
AutoSave ==
  /\ state.unsavedChanges /\ state.currentProposal # NoProposal
  /\ Len(saves) < MaxSaves
  /\ saves' = saveProposal(state, saves)
  /\ UNCHANGED <<state, proposals>>
  /\ UNCHANGED besideEditor

\* PUT /api/proposals/:id for the save at place i
ServePutOf(i) ==
  /\ saves[i].stage = "sent"
  /\ \E now \in Times :
       /\ proposals' =
            [proposals EXCEPT ![TheProposal] =
               updated(proposals[TheProposal], saves[i].body, TheProposal, now)]
       /\ saves' =
            [saves EXCEPT ![i] =
               [stage |-> "answered", body |-> saves[i].body,
                answer |-> updated(proposals[TheProposal], saves[i].body,
                                   TheProposal, now)]]
  /\ UNCHANGED state
  /\ UNCHANGED besideEditor

ServePut == \E i \in DOMAIN saves : ServePutOf(i)

\* seq without its element at place i
Remove(seq, i) == SubSeq(seq, 1, i - 1) \o SubSeq(seq, i + 1, Len(seq))

\* the answer of the save at place i arrives
SaveResponseOf(i) ==
  /\ saves[i].stage = "answered"
  /\ state' = saveProposal_Answered(state, saves[i].answer)
  /\ saves' = Remove(saves, i)
  /\ UNCHANGED proposals
  /\ UNCHANGED besideEditor

SaveResponse == \E i \in DOMAIN saves : SaveResponseOf(i)

\* fetch rejects: catch (e) { toast('Save failed: ' + e.message, 'error') }
SaveFails ==
  /\ \E i \in DOMAIN saves : saves' = Remove(saves, i)
  /\ UNCHANGED <<state, proposals>>
  /\ UNCHANGED besideEditor

NextEditor ==
  \/ OpenEditor
  \/ EditTitle
  \/ EditStatus
  \/ ClickSave
  \/ AutoSave
  \/ ServePut
  \/ SaveResponse
  \/ SaveFails

SpecEditor == InitEditor /\ [][NextEditor]_vars

(***************************************************************************)
(* A generation: the generate route of the server and generateSection()   *)
(* of the client                                                           *)
(*                                                                         *)
(* The events of the response are taken whole: the client splits the body  *)
(* at the line ends, however the network cuts it.  A text is the sequence  *)
(* of the chunks it is made of.                                            *)
(***************************************************************************)
\* most chunks a provider gives
MaxChunks == 2

Chunks == {"x", "y"}

TheSection == "Aims"

OldText == <<"old">>

ChunkEvent(chunk) == [type |-> "chunk", content |-> chunk]

DoneEvent == [type |-> "done"]

ErrorEvent == [type |-> "error"]

\* setupSSE(res): res.writeHead(200, ...)
setupSSE(r) == [r EXCEPT !.headersSent = TRUE]

\* the function setupSSE returns: (chunk) => res.write(<chunk event>)
onChunk(r, chunk) == [r EXCEPT !.wire = Append(@, ChunkEvent(chunk))]

\* endSSE(res): write the done event, end
endSSE(r) == [r EXCEPT !.wire = Append(@, DoneEvent), !.ended = TRUE]

\* errorSSE that writes the error event and leaves the response open
errorSSE_NoEnd(r) ==
  IF r.headersSent
  THEN [r EXCEPT !.wire = Append(@, ErrorEvent)]
  ELSE [r EXCEPT !.ended = TRUE]

\* errorSSE(res, err): the error event and end when the headers are sent,
\* a 500 with a JSON body otherwise
errorSSE(r) ==
  IF r.headersSent
  THEN [r EXCEPT !.wire = Append(@, ErrorEvent), !.ended = TRUE]
  ELSE [r EXCEPT !.ended = TRUE]

\* the onComplete of generateSection:
\* state.currentProposal.sections[sName] = text; state.unsavedChanges = true
onComplete(st, text) ==
  [currentProposal |->
     [st.currentProposal EXCEPT !.sections = [@ EXCEPT ![TheSection] = text]],
   unsavedChanges |-> TRUE]

\* the body of the loop of streamResponse for one event
onEvent(rd, event) ==
  IF event.type = "chunk"
  THEN [rd EXCEPT !.read = @ + 1, !.fullText = Append(@, event.content)]
  ELSE IF event.type = "done"
       THEN [rd EXCEPT !.read = @ + 1, !.completed = Append(@, rd.fullText)]
       ELSE [rd EXCEPT !.read = @ + 1]

InitStream ==
  /\ ServerStarted
  /\ proposals = <<>> /\ issued = 0 /\ createdAtOf = <<>>
  /\ state =
       [currentProposal |->
          [sections |-> [s \in {TheSection} |-> OldText]]
            @@ created(PlainBody, TheProposal, 1),
        unsavedChanges |-> FALSE]
  /\ NothingInFlight

\* onclick="generateSection(key)": fetch('/api/generate/proposal', ...)
GenerateSection ==
  /\ reading.pc = "idle"
  /\ reading' = [reading EXCEPT !.pc = "fetching"]
  /\ UNCHANGED <<res, generation, state>>
  /\ UNCHANGED besideStream

\* the route begins: const onChunk = setupSSE(res), then the provider call
SetupSSE ==
  /\ reading.pc = "fetching" /\ generation.pc = "idle"
  /\ res' = setupSSE(res)
  /\ generation' = [generation EXCEPT !.pc = "running"]
  /\ UNCHANGED <<reading, state>>
  /\ UNCHANGED besideStream

\* the provider reads a piece of text and calls onChunk with it
ProviderChunk ==
  /\ generation.pc = "running"
  /\ Len(generation.produced) < MaxChunks
  /\ \E chunk \in Chunks :
       /\ generation' = [generation EXCEPT !.produced = Append(@, chunk)]
       /\ res' = onChunk(res, chunk)
  /\ UNCHANGED <<reading, state>>
  /\ UNCHANGED besideStream

\* the provider call returns
ProviderCompletes ==
  /\ generation.pc = "running"
  /\ generation' = [generation EXCEPT !.pc = "completed"]
  /\ UNCHANGED <<res, reading, state>>
  /\ UNCHANGED besideStream

\* the provider call throws: no answer, an answer that is not ok, a read
\* that fails
ProviderRaises ==
  /\ generation.pc = "running"
  /\ generation' = [generation EXCEPT !.pc = "raised"]
  /\ UNCHANGED <<res, reading, state>>
  /\ UNCHANGED besideStream

\* after the await of the route: endSSE(res)
EndSSE ==
  /\ generation.pc = "completed" /\ ~generation.answered
  /\ res' = endSSE(res)
  /\ generation' = [generation EXCEPT !.answered = TRUE]
  /\ UNCHANGED <<reading, state>>
  /\ UNCHANGED besideStream

\* the catch of the route: errorSSE(res, err)
ErrorSSE ==
  /\ generation.pc = "raised" /\ ~generation.answered
  /\ res' = errorSSE(res)
  /\ generation' = [generation EXCEPT !.answered = TRUE]
  /\ UNCHANGED <<reading, state>>
  /\ UNCHANGED besideStream

\* fetch resolves with the headers; streamResponse is called
FetchResolves ==
  /\ reading.pc = "fetching" /\ res.headersSent
  /\ reading' = [reading EXCEPT !.pc = "reading"]
  /\ UNCHANGED <<res, generation, state>>
  /\ UNCHANGED besideStream

\* reader.read() gives the next event of the response
ReadEvent ==
  /\ reading.pc = "reading" /\ reading.read < Len(res.wire)
  /\ reading' = onEvent(reading, res.wire[reading.read + 1])
  /\ state' = IF res.wire[reading.read + 1].type = "done"
              THEN onComplete(state, reading.fullText)
              ELSE state
  /\ UNCHANGED <<res, generation>>
  /\ UNCHANGED besideStream

\* reader.read() gives done: the loop ends, then the "final cleanup"
ReadEnd ==
  /\ reading.pc = "reading" /\ res.ended /\ reading.read = Len(res.wire)
  /\ reading' = [reading EXCEPT !.pc = "returned",
                                !.completed = Append(@, reading.fullText)]
  /\ state' = onComplete(state, reading.fullText)
  /\ UNCHANGED <<res, generation>>
  /\ UNCHANGED besideStream

\* reader.read() rejects, the connection being lost: the catch of
\* generateSection
ReadRaises ==
  /\ reading.pc = "reading"
  /\ reading' = [reading EXCEPT !.pc = "failed"]
  /\ UNCHANGED <<res, generation, state>>
  /\ UNCHANGED besideStream

NextStream ==
  \/ GenerateSection
  \/ SetupSSE
  \/ ProviderChunk
  \/ ProviderCompletes
  \/ ProviderRaises
  \/ EndSSE
  \/ ErrorSSE
  \/ FetchResolves
  \/ ReadEvent
  \/ ReadEnd
  \/ ReadRaises

SpecStream == InitStream /\ [][NextStream]_vars

(***************************************************************************)
(* Properties of the budget engine                                         *)
(***************************************************************************)
\* the budget handler has answered 200 for the request in hand
BudgetDone == request.route = "budget" /\ response.status = 200

Summary == response.json.summary

InItems(cat) == categoryOf(request.body, cat).items

OutItems(cat) == response.json.categories[cat].items

IsNumber(item, key) == key \in DOMAIN item /\ item[key].k = "number"

\* y is x rounded to 2 decimals, a half going up
IsRounded(x, y) ==
  /\ Mul(y, Whole(100)).den = 1
  /\ ~Less(x, Sub(y, Num(1, 200)))
  /\ Less(x, Add(y, Num(1, 200)))

\* C1: in every budget result, institutionContribution + funderContribution
\* equals fullEconomicCost to 2 decimal places.
C1_SplitAddsUp ==
  BudgetDone =>
    round(Add(Summary.institutionContribution, Summary.funderContribution))
      = round(Summary.fullEconomicCost)

\* a split under a fractional rate with both parts non-zero and in pence
C1_Witness ==
  /\ BudgetDone
  /\ Summary.costModel # "full"
  /\ Summary.funderContribution.den = 100
  /\ Summary.institutionContribution.num > 0
  /\ ~IsRounded(Mul(Summary.fullEconomicCost,
                    Sub(Whole(1), Div(Summary.funderRate, Whole(100)))),
                Summary.institutionContribution)

\* C2: under costModel 'full' the funder pays the full economic cost and the
\* institution nothing, whatever the items and the rates.
C2_FullModel ==
  (BudgetDone /\ Summary.costModel = "full") =>
    /\ Summary.funderContribution = Summary.fullEconomicCost
    /\ Summary.institutionContribution = Whole(0)

\* 'full' with a non-zero cost and rates that would split it otherwise
C2_Witness ==
  /\ BudgetDone
  /\ Summary.costModel = "full"
  /\ Summary.fullEconomicCost.num > 0
  /\ Field(request.body, "fecRate") = Whole(80)
  /\ Field(request.body, "customRate") = Whole(50)

\* the funder rate, in percent, the cost model selects
RateOf(body) ==
  LET m == Default(body, "costModel", "fEC")
  IN CASE m = "full" -> Whole(100)
       [] m = "custom" -> Default(body, "customRate", Whole(100))
       [] OTHER -> Default(body, "fecRate", Whole(80))

\* C5: the funder rate is fecRate (default 80) for 'fEC', 100 for 'full',
\* customRate (default 100) for 'custom'; any other costModel gives the
\* categories and summary figures of 'fEC' on the same input, without an
\* error; funderContribution is fullEconomicCost times the rate (to 2
\* decimals) and institutionContribution is the remainder.
C5_CostModelDispatch ==
  (request.route = "budget" /\ response # NoResponse
     /\ calculateBudget(("costModel" :> "fEC") @@ request.body).raised = FALSE) =>
    /\ response.status = 200
    /\ Summary.funderRate = RateOf(request.body)
    /\ IsRounded(Mul(Summary.fullEconomicCost,
                     Div(RateOf(request.body), Whole(100))),
                 Summary.funderContribution)
    /\ Summary.institutionContribution
         = Sub(Summary.fullEconomicCost, Summary.funderContribution)
    /\ Default(request.body, "costModel", "fEC") \notin {"fEC", "full", "custom"} =>
         [response.json EXCEPT !.summary.costModel = "fEC"]
           = calculateBudget(("costModel" :> "fEC") @@ request.body)

\* an unrecognised cost model over a non-zero cost, fecRate given and not 80
C5_Witness ==
  /\ BudgetDone
  /\ Summary.costModel = "FEC"
  /\ Field(request.body, "fecRate") = Num(25, 2)
  /\ Field(request.body, "customRate") = Whole(50)
  /\ Summary.fullEconomicCost.num > 0
  /\ Summary.funderContribution.den = 100

\* the staff formula of the cost rules, unrounded
StaffFormula(salary, fte, months, onCostRate) ==
  Mul(Mul(Div(Mul(salary, Div(fte, Whole(100))), Whole(12)), months),
      Add(Whole(1), onCostRate))

\* C6: a staff item with numeric salary >= 0, fte in 0..100, months >= 0 and
\* onCostRate >= 0 has subtotal
\* (salary * fte/100 / 12 * months) * (1 + onCostRate) rounded to 2 decimals.
C6_StaffSubtotal ==
  BudgetDone =>
    \A i \in 1..Len(InItems("staff")) :
      LET item == InItems("staff")[i].f
      IN (/\ IsNumber(item, "salary") /\ item.salary.num >= 0
          /\ IsNumber(item, "fte") /\ item.fte.num >= 0
          /\ ~Less(Whole(100), item.fte)
          /\ IsNumber(item, "months") /\ item.months.num >= 0
          /\ IsNumber(item, "onCostRate") /\ item.onCostRate.num >= 0) =>
           IsRounded(StaffFormula(item.salary, item.fte, item.months,
                                  item.onCostRate),
                     OutItems("staff")[i].total)

\* C7: a travel item with costPerTrip >= 0 and integer numTrips >= 1 (1 when
\* absent) has subtotal costPerTrip * numTrips, to 2 decimals, and the travel
\* total is the sum of the travel subtotals.
C7_TravelSubtotal ==
  BudgetDone =>
    /\ \A i \in 1..Len(InItems("travel")) :
         LET item == InItems("travel")[i].f
             trips == Default(item, "numTrips", Whole(1))
         IN (/\ IsNumber(item, "costPerTrip") /\ item.costPerTrip.num >= 0
             /\ trips.k = "number" /\ trips.den = 1 /\ trips.num >= 1) =>
              OutItems("travel")[i].total = round(Mul(item.costPerTrip, trips))
    /\ response.json.categories["travel"].total
         = SumSeq([i \in 1..Len(OutItems("travel")) |-> OutItems("travel")[i].total],
                  Len(OutItems("travel")))

\* two travel items, one of 500 x 3 trips contributing 1500, one without numTrips
C7_Witness ==
  /\ BudgetDone
  /\ Len(InItems("travel")) = 2
  /\ InItems("travel")[1].f = [costPerTrip |-> Whole(500), numTrips |-> Whole(3)]
  /\ OutItems("travel")[1].total = Whole(1500)
  /\ "numTrips" \notin DOMAIN InItems("travel")[2].f
  /\ response.json.categories["travel"].total = Num(151999, 100)

Totals(cat) ==
  [i \in 1..Len(OutItems(cat)) |-> OutItems(cat)[i].total]

CategoryTotal(cat) == response.json.categories[cat].total

\* C8: directCosts is the sum of the six category totals, each the sum of its
\* items' subtotals; indirectCosts is directCosts * overheadRate/100 (to 2
\* decimals, overheadRate defaulting to 25); fullEconomicCost is
\* directCosts + indirectCosts.
C8_RollUp ==
  BudgetDone =>
    /\ \A cat \in Categories :
         CategoryTotal(cat) = SumSeq(Totals(cat), Len(Totals(cat)))
    /\ Summary.directCosts
         = Add(CategoryTotal("staff"),
             Add(CategoryTotal("travel"),
               Add(CategoryTotal("equipment"),
                 Add(CategoryTotal("consumables"),
                   Add(CategoryTotal("other"), CategoryTotal("subcontracting"))))))
    /\ IsRounded(Mul(Summary.directCosts,
                     Div(Default(request.body, "overheadRate", Whole(25)),
                         Whole(100))),
                 Summary.indirectCosts)
    /\ Summary.fullEconomicCost = Add(Summary.directCosts, Summary.indirectCosts)

\* all six categories filled, two with two items, the default overhead rate,
\* and an overhead that needs rounding
C8_Witness ==
  /\ BudgetDone
  /\ \A cat \in Categories : Len(OutItems(cat)) >= 1
  /\ Len(OutItems("staff")) = 2 /\ Len(OutItems("other")) = 2
  /\ "overheadRate" \notin DOMAIN request.body
  /\ Mul(Summary.directCosts, Whole(25)).den # 1
  /\ Summary.indirectCosts.num > 0

\* the numeric fields of a line item and what a missing or unparsable one
\* counts as
NumericFields(cat) ==
  CASE cat = "staff" -> {"salary", "fte", "months", "onCostRate"}
    [] cat = "travel" -> {"costPerTrip", "numTrips"}
    [] OTHER -> {"cost"}

CountsAs(key) ==
  CASE key = "fte" -> Whole(100)
    [] key = "onCostRate" -> Num(1, 4)
    [] key = "numTrips" -> Whole(1)
    [] OTHER -> Whole(0)

\* missing, or a value parseFloat finds no numeral in
Unparsable(item, key) ==
  key \notin DOMAIN item \/ parseFloat(item[key]).k = "NaN"

\* the item with every missing or unparsable numeric field set to what it
\* counts as
Filled(cat, item) ==
  [key \in DOMAIN item \cup NumericFields(cat) |->
     IF key \in NumericFields(cat) /\ Unparsable(item, key)
     THEN CountsAs(key) ELSE item[key]]

WellFormed(body) ==
  \A cat \in Categories :
    cat \in DOMAIN body =>
      /\ body[cat].k = "array"
      /\ \A i \in 1..Len(body[cat].items) : body[cat].items[i].k = "object"

IsMoney(v) == v.k = "number" /\ Mul(v, Whole(100)).den = 1

\* C9: with any category array omitted and any item field missing or
\* non-numeric, the call does not raise and returns a complete record, in
\* which a missing or unparsable salary, months, cost or costPerTrip counts
\* as 0, fte as 100, onCostRate as 0.25 and numTrips as 1.
C9_NeverRaises ==
  (request.route = "budget" /\ response # NoResponse /\ WellFormed(request.body)) =>
    /\ response.status = 200
    /\ DOMAIN response.json.categories = Categories
    /\ \A cat \in Categories :
         /\ Len(OutItems(cat)) = Len(InItems(cat))
         /\ IsMoney(CategoryTotal(cat))
         /\ \A i \in 1..Len(InItems(cat)) :
              /\ IsMoney(OutItems(cat)[i].total)
              /\ OutItems(cat)[i].total
                   = calcItem(cat, Filled(cat, InItems(cat)[i].f)).total
    /\ \A key \in {"directCosts", "indirectCosts", "fullEconomicCost",
                   "funderContribution", "institutionContribution"} :
         IsMoney(Summary[key])

\* a staff item with salary and months given and fte and onCostRate both
\* missing or unparsable, in a body that omits the other categories
C9_Witness ==
  /\ BudgetDone
  /\ DOMAIN request.body = {"staff"}
  /\ Len(InItems("staff")) = 1
  /\ LET item == InItems("staff")[1].f
     IN /\ IsNumber(item, "salary") /\ item.salary = Whole(1000)
        /\ IsNumber(item, "months") /\ item.months = Whole(7)
        /\ "fte" \in DOMAIN item /\ Unparsable(item, "fte")
        /\ "onCostRate" \notin DOMAIN item
  /\ OutItems("staff")[1].total = Num(72917, 100)

\* the keys the engine writes into a returned item
Written(cat) ==
  IF cat = "staff"
  THEN {"fte", "annualCost", "monthlyCost", "totalBase", "onCosts", "total"}
  ELSE {"total"}

\* C10 as stated: the handler leaves the request's line items as they are,
\* and each returned item carries every field of its input item with the
\* input value, plus the computed subtotal.
C10_ItemsCarriedOver ==
  BudgetDone =>
    \A cat \in Categories :
      \A i \in 1..Len(InItems(cat)) :
        /\ "total" \in DOMAIN OutItems(cat)[i]
        /\ \A key \in DOMAIN InItems(cat)[i].f :
             key \in DOMAIN OutItems(cat)[i]
               /\ OutItems(cat)[i][key] = InItems(cat)[i].f[key]

\* C10, amended: the handler leaves the request's line items as they are, and
\* each returned item carries every input field other than the ones the
\* engine writes (total; for staff also fte, annualCost, monthlyCost,
\* totalBase, onCosts) with its input value, and carries the computed total.
C10_ItemsCarriedOverAmended ==
  [][BudgetCalculateHandler =>
       /\ request' = request
       /\ response'.status = 200 =>
            \A cat \in Categories :
              LET ins == categoryOf(request.body, cat).items
                  outs == response'.json.categories[cat].items
              IN /\ Len(outs) = Len(ins)
                 /\ \A i \in 1..Len(ins) :
                      /\ "total" \in DOMAIN outs[i]
                      /\ outs[i].total.k = "number"
                      /\ \A key \in DOMAIN ins[i].f \ Written(cat) :
                           key \in DOMAIN outs[i] /\ outs[i][key] = ins[i].f[key]]_vars

\* a staff item with a name and an unparsable fte has been calculated: the
\* name is carried over, the fte is not
C10_Witness ==
  /\ BudgetDone
  /\ Len(InItems("staff")) = 1
  /\ LET item == InItems("staff")[1].f
     IN /\ "name" \in DOMAIN item /\ OutItems("staff")[1].name = item.name
        /\ "fte" \in DOMAIN item /\ item.fte = S_abc
        /\ OutItems("staff")[1].fte = Whole(100)

\* the subtotal of the i-th item of a category other than staff before it
\* is rounded
Unrounded(cat, i) ==
  IF cat = "travel"
  THEN Mul(OrElse(parseFloat(Field(InItems(cat)[i].f, "costPerTrip")), Whole(0)),
           OrElse(parseFloat(Field(InItems(cat)[i].f, "numTrips")), Whole(1)))
  ELSE OrElse(parseFloat(Field(InItems(cat)[i].f, "cost")), Whole(0))

\* the sum of a sequence of numbers, from its last element down
RECURSIVE SumDown(_)
SumDown(seq) ==
  IF seq = <<>> THEN Whole(0) ELSE Add(SumDown(Tail(seq)), Head(seq))

\* C24: rounding to 2 decimals takes place at every aggregation step: each
\* item subtotal is rounded before it is summed, each category total is the
\* (rounded) sum of the rounded subtotals, and indirectCosts,
\* fullEconomicCost and funderContribution are each rounded from the figures
\* before them.
C24_RoundsEachStep ==
  BudgetDone =>
    /\ \A cat \in Categories \ {"staff"} :
         \A i \in 1..Len(OutItems(cat)) :
           IsRounded(Unrounded(cat, i), OutItems(cat)[i].total)
    /\ \A i \in 1..Len(OutItems("staff")) :
         /\ IsMoney(OutItems("staff")[i].totalBase)
         /\ IsMoney(OutItems("staff")[i].onCosts)
         /\ IsMoney(OutItems("staff")[i].total)
    /\ \A cat \in Categories :
         /\ IsMoney(CategoryTotal(cat))
         /\ CategoryTotal(cat) = SumDown(Totals(cat))
    /\ IsRounded(Mul(Summary.directCosts,
                     Div(Default(request.body, "overheadRate", Whole(25)),
                         Whole(100))),
                 Summary.indirectCosts)
    /\ IsRounded(Add(Summary.directCosts, Summary.indirectCosts),
                 Summary.fullEconomicCost)
    /\ IsRounded(Mul(Summary.fullEconomicCost, Div(RateOf(request.body), Whole(100))),
                 Summary.funderContribution)

\* two items of 0.005 each: the category total is 0.02, the rounding of the
\* unrounded sum would be 0.01; the overhead and the funder's share need
\* rounding as well
C24_Witness ==
  /\ BudgetDone
  /\ Len(OutItems("equipment")) = 2
  /\ CategoryTotal("equipment") = Num(2, 100)
  /\ IsRounded(Add(Unrounded("equipment", 1), Unrounded("equipment", 2)), Num(1, 100))
  /\ OutItems("travel")[1].total = Num(101, 100)
  /\ ~IsMoney(Mul(Summary.directCosts,
                  Div(Default(request.body, "overheadRate", Whole(25)), Whole(100))))
  /\ ~IsMoney(Mul(Summary.fullEconomicCost, Div(RateOf(request.body), Whole(100))))

(***************************************************************************)
(* Properties of the compliance checker                                    *)
(***************************************************************************)
\* the compliance handler has answered 200 for the request in hand
ComplianceDone == request.route = "compliance" /\ response.status = 200

Results == response.json.results

\* the funder file of the request has no scheme at the requested index
NoSchemeRequested ==
  LET funderData == FunderFiles[request.body.funderId]
      idx == Default(request.body, "schemeIndex", Whole(0))
  IN \/ "schemes" \notin DOMAIN funderData
     \/ idx.k # "number" \/ idx.den # 1
     \/ idx.num \notin 0..(Len(funderData.schemes.items) - 1)
     \/ funderData.schemes.items[idx.num + 1].k = "null"

\* C3: with no scheme at schemeIndex (no schemes list, an index out of range,
\* or a null entry) the check does not raise and returns exactly
\* {overall: 'fail', results: [one fail finding]}.
C3_NoSchemeShortCircuit ==
  (/\ request.route = "compliance" /\ response # NoResponse
   /\ "funderId" \in DOMAIN request.body
   /\ request.body.funderId \in DOMAIN FunderFiles
   /\ NoSchemeRequested) =>
    /\ response.status = 200
    /\ DOMAIN response.json = {"overall", "results"}
    /\ response.json.overall = "fail"
    /\ Len(Results) = 1
    /\ Results[1].status = "fail"
    /\ Results[1].check = "Scheme Selection"

\* an index past the end of a funder's schemes, with a budget over the first
\* scheme's maximum, a duration and a proposal text that other checks would
\* have reported on
C3_Witness ==
  /\ ComplianceDone
  /\ request.body.funderId = "ukri"
  /\ Field(request.body, "schemeIndex") = Whole(3)
  /\ Field(request.body, "budget") = Whole(100001)
  /\ Field(request.body, "duration") = Whole(40)
  /\ Truthy(Field(request.body, "proposalText"))
  /\ Len(Results) = 1

Statuses == {Results[i].status : i \in 1..Len(Results)}

\* C4: overall is the most severe status in results: 'fail' if any finding
\* is 'fail', otherwise 'warn' if any is 'warn', otherwise 'pass'.
C4_OverallSeverity ==
  ComplianceDone =>
    /\ Statuses \subseteq {"pass", "warn", "fail"}
    /\ response.json.overall = "fail" <=> "fail" \in Statuses
    /\ response.json.overall = "warn" <=> ("warn" \in Statuses /\ "fail" \notin Statuses)
    /\ response.json.overall = "pass" <=> Statuses \subseteq {"pass"}

\* a verdict with all three severities among its findings
C4_Witness ==
  /\ ComplianceDone
  /\ Statuses = {"pass", "warn", "fail"}
  /\ Len(Results) >= 8
  /\ response.json.overall = "fail"

\* verdicts of each of the other two severities are reached as well
C4_WitnessWarn ==
  ComplianceDone /\ Statuses = {"pass", "warn"} /\ response.json.overall = "warn"

C4_WitnessPass ==
  ComplianceDone /\ Statuses = {"pass"} /\ response.json.overall = "pass"

\* the handler has answered with the findings of a resolved scheme
SchemeResolved == ComplianceDone /\ ~NoSchemeRequested

\* the scheme of the funder file that the request selects
Scheme ==
  FunderFiles[request.body.funderId].schemes.items[
    Default(request.body, "schemeIndex", Whole(0)).num + 1].f

\* the scheme declares a limit under key: a number above zero
Declares(key) ==
  key \in DOMAIN Scheme /\ Scheme[key].k = "number" /\ Scheme[key].num > 0

\* the indexes of the findings of a check
FindingsOf(check) == {i \in 1..Len(Results) : Results[i].check = check}

\* the number a request carries under key, 0 when it carries none
Requested(key) ==
  OrElse(parseFloat(Default(request.body, key, Whole(0))), Whole(0))

\* x > y and x > (p / q) * y, for numbers x, y and naturals p, q
Exceeds(x, y) == x.num * y.den > y.num * x.den

ExceedsShare(x, p, q, y) == q * x.num * y.den > p * y.num * x.den

\* C11: when the scheme declares maxAmount there is exactly one 'Budget
\* Maximum' finding: 'fail' if the requested budget exceeds maxAmount, 'warn'
\* if it does not but exceeds 0.95 x maxAmount, 'pass' otherwise.
C11_BudgetMaximum ==
  (SchemeResolved /\ Declares("maxAmount")) =>
    /\ Cardinality(FindingsOf("Budget Maximum")) = 1
    /\ \A i \in FindingsOf("Budget Maximum") :
         Results[i].status =
           IF Exceeds(Requested("budget"), Scheme.maxAmount) THEN "fail"
           ELSE IF ExceedsShare(Requested("budget"), 95, 100, Scheme.maxAmount)
           THEN "warn" ELSE "pass"

\* a budget just over 95% of the maximum has the warning
C11_Witness ==
  /\ SchemeResolved
  /\ Scheme.maxAmount = Whole(1000)
  /\ Requested("budget") = Whole(951)
  /\ \E i \in FindingsOf("Budget Maximum") : Results[i].status = "warn"

\* the three budgets of the example and the two thresholds themselves
C11_WitnessFail ==
  /\ SchemeResolved /\ Scheme.maxAmount = Whole(100000)
  /\ Requested("budget") = Whole(100001)
  /\ \E i \in FindingsOf("Budget Maximum") : Results[i].status = "fail"

C11_WitnessPass ==
  /\ SchemeResolved /\ Scheme.maxAmount = Whole(1000)
  /\ Requested("budget") = Whole(950)
  /\ \E i \in FindingsOf("Budget Maximum") : Results[i].status = "pass"

\* the sections the scheme declares
SectionsOf == IF "sections" \in DOMAIN Scheme THEN Scheme.sections ELSE <<>>

\* the declared sections that are marked required
RequiredSections ==
  {j \in 1..Len(SectionsOf) : Truthy(Field(SectionsOf[j], "required"))}

\* the text resolved for the j-th declared section
ResolvedText(j) ==
  findSection(Default(request.body, "sections", NoSections),
              Field(request.body, "proposalText"), SectionsOf[j].name.s)

\* the indexes of the findings about the j-th declared section, and of those
\* of one part: "" (the section itself), "Present", "Word Limit", "Page Limit"
SectionFindings(j) ==
  {i \in 1..Len(Results) :
     Results[i].check = "Section" /\ Results[i].section = SectionsOf[j].name.s}

PartFindings(j, part) == {i \in SectionFindings(j) : Results[i].part = part}

\* one 'fail' for the j-th section and nothing else about it
OnlyFailed(j) ==
  /\ Cardinality(SectionFindings(j)) = 1
  /\ \A i \in SectionFindings(j) : Results[i].status = "fail" /\ Results[i].part = ""

\* one 'pass' that the j-th section is present, and no 'fail' for the section
FoundPresent(j) ==
  /\ Cardinality(PartFindings(j, "Present")) = 1
  /\ \A i \in PartFindings(j, "Present") : Results[i].status = "pass"
  /\ PartFindings(j, "") = {}

\* C12 as stated, the length being that of the resolved text: a required
\* section whose text is missing or shorter than 50 characters has exactly
\* one 'fail' and no limit finding, any other has exactly one 'pass'
\* presence finding.
C12_RequiredSection ==
  SchemeResolved =>
    \A j \in RequiredSections :
      IF ~Truthy(ResolvedText(j)) \/ Len(ResolvedText(j).s) < 50
      THEN OnlyFailed(j) ELSE FoundPresent(j)

\* C12 (amended): the length is that of the resolved text without its
\* leading and trailing white space.
C12_RequiredSectionTrimmed ==
  SchemeResolved =>
    \A j \in RequiredSections :
      IF ~Truthy(ResolvedText(j)) \/ trimLength(ResolvedText(j).s) < 50
      THEN OnlyFailed(j) ELSE FoundPresent(j)

\* a required section with a word and a page limit whose text has 50
\* characters, 49 without the space at its end: one 'fail' and no more
C12_Witness ==
  /\ SchemeResolved
  /\ request.body.funderId = "small"
  /\ ResolvedText(2) = Str(Rep(W_word, 10))
  /\ OnlyFailed(2)

\* a required section that is present, with its limit findings
C12_WitnessPresent ==
  /\ SchemeResolved
  /\ request.body.funderId = "small"
  /\ FoundPresent(2)
  /\ Cardinality(SectionFindings(2)) = 3

\* the words of a text: its maximal runs of characters that are not white
\* space, counted by their last characters
WordCount(text) ==
  IF text.k # "string" THEN 0
  ELSE Cardinality({i \in 1..Len(text.s) :
                      /\ text.s[i] \notin WhiteSpace
                      /\ (i = Len(text.s) \/ text.s[i + 1] \in WhiteSpace)})

\* the required sections that have the 'fail' of C12
FailedRequired ==
  {j \in RequiredSections :
     ~Truthy(ResolvedText(j)) \/ trimLength(ResolvedText(j).s) < 50}

\* the declared sections with a limit under key whose text was found
Limited(key) ==
  {j \in 1..Len(SectionsOf) :
     /\ key \in DOMAIN SectionsOf[j]
     /\ SectionsOf[j][key].k = "number" /\ SectionsOf[j][key].num > 0
     /\ Truthy(ResolvedText(j))}

\* the j-th section has exactly one finding of a part, with a status
OneFinding(j, part, status) ==
  /\ Cardinality(PartFindings(j, part)) = 1
  /\ \A i \in PartFindings(j, part) : Results[i].status = status

\* the word-limit finding of the j-th section is as C13 states it
WordLimitAsStated(j) ==
  LET wc == WordCount(ResolvedText(j))
      maxWords == SectionsOf[j].maxWords.num
  IN IF wc > maxWords THEN OneFinding(j, "Word Limit", "fail")
     ELSE IF 10 * wc > 9 * maxWords THEN OneFinding(j, "Word Limit", "warn")
     ELSE IF wc > 0 THEN OneFinding(j, "Word Limit", "pass")
     ELSE PartFindings(j, "Word Limit") = {}

\* C13 as stated: every section with a declared maxWords whose text was
\* found has the word-limit finding 'fail' above maxWords, 'warn' above 90%
\* of it, 'pass' for a count above 0, and none for a count of 0.
C13_WordLimit ==
  SchemeResolved => \A j \in Limited("maxWords") : WordLimitAsStated(j)

\* C13 (amended): the same for every such section that has not failed the
\* required-section check, and no word-limit finding for one that has.
C13_WordLimitUnlessFailed ==
  SchemeResolved =>
    \A j \in Limited("maxWords") :
      IF j \in FailedRequired THEN PartFindings(j, "Word Limit") = {}
      ELSE WordLimitAsStated(j)

\* a section of 91 words under a limit of 100 has the warning
C13_Witness ==
  /\ SchemeResolved
  /\ request.body.funderId = "small"
  /\ 1 \in Limited("maxWords")
  /\ WordCount(ResolvedText(1)) = 91
  /\ OneFinding(1, "Word Limit", "warn")

\* sections of 90 and of 101 words under that limit, and a blank one
C13_WitnessPass ==
  /\ SchemeResolved /\ request.body.funderId = "small"
  /\ WordCount(ResolvedText(1)) = 90 /\ OneFinding(1, "Word Limit", "pass")

C13_WitnessFail ==
  /\ SchemeResolved /\ request.body.funderId = "small"
  /\ WordCount(ResolvedText(1)) = 101 /\ OneFinding(1, "Word Limit", "fail")

C13_WitnessBlank ==
  /\ SchemeResolved /\ request.body.funderId = "small"
  /\ 1 \in Limited("maxWords")
  /\ WordCount(ResolvedText(1)) = 0 /\ PartFindings(1, "Word Limit") = {}

\* the least whole number of pages of 300 words that hold the words of a text
PagesOf(text) == (WordCount(text) + 299) \div 300

\* the page-limit finding of the j-th section is as C14 states it
PageLimitAsStated(j) ==
  OneFinding(j, "Page Limit",
             IF PagesOf(ResolvedText(j)) > SectionsOf[j].maxPages.num
             THEN "fail" ELSE "pass")

\* C14 as stated: every section with a declared maxPages whose text was
\* found has exactly one page-limit finding, 'fail' if ceil(wordCount / 300)
\* exceeds maxPages and 'pass' otherwise.
C14_PageLimit ==
  SchemeResolved => \A j \in Limited("maxPages") : PageLimitAsStated(j)

\* C14 (amended): the same for every such section that has not failed the
\* required-section check, and no page-limit finding for one that has.
C14_PageLimitUnlessFailed ==
  SchemeResolved =>
    \A j \in Limited("maxPages") :
      IF j \in FailedRequired THEN PartFindings(j, "Page Limit") = {}
      ELSE PageLimitAsStated(j)

\* 301 words make two pages, over a limit of one page
C14_Witness ==
  /\ SchemeResolved
  /\ request.body.funderId = "small"
  /\ 2 \in Limited("maxPages")
  /\ WordCount(ResolvedText(2)) = 301
  /\ OneFinding(2, "Page Limit", "fail")
  /\ \E i \in PartFindings(2, "Page Limit") : Results[i].args[1] = Whole(2)

\* 300 words make one page
C14_WitnessPass ==
  /\ SchemeResolved /\ request.body.funderId = "small"
  /\ WordCount(ResolvedText(2)) = 300
  /\ OneFinding(2, "Page Limit", "pass")

\* the findings of a check are one finding, with a status
OneOf(check, status) ==
  /\ Cardinality(FindingsOf(check)) = 1
  /\ \A i \in FindingsOf(check) : Results[i].status = status

\* C15: when the scheme declares minAmount, a requested budget above 0 has
\* exactly one 'Budget Minimum' finding, 'fail' below minAmount and 'pass' at
\* or above it, and a requested budget of 0 has none.
C15_BudgetMinimum ==
  (SchemeResolved /\ Declares("minAmount")) =>
    /\ Requested("budget").num > 0 =>
         OneOf("Budget Minimum",
               IF Exceeds(Scheme.minAmount, Requested("budget"))
               THEN "fail" ELSE "pass")
    /\ Requested("budget").num = 0 => FindingsOf("Budget Minimum") = {}

\* a budget just under the minimum fails
C15_Witness ==
  /\ SchemeResolved
  /\ Declares("minAmount") /\ Scheme.minAmount = Whole(200)
  /\ Requested("budget") = Whole(199)
  /\ OneOf("Budget Minimum", "fail")

\* a budget at the minimum passes, a budget of 0 has no finding
C15_WitnessAt ==
  /\ SchemeResolved /\ Declares("minAmount") /\ Scheme.minAmount = Whole(200)
  /\ Requested("budget") = Whole(200)
  /\ OneOf("Budget Minimum", "pass")

C15_WitnessZero ==
  /\ SchemeResolved /\ Declares("minAmount")
  /\ "budget" \in DOMAIN request.body /\ request.body.budget = Whole(0)
  /\ FindingsOf("Budget Minimum") = {}

\* the requested duration is above 0 and below the declared minimum
BelowMinDuration ==
  Requested("duration").num > 0 /\ Exceeds(Scheme.minDuration, Requested("duration"))

\* C16: with a declared maxDuration a duration above it has a 'fail', a
\* duration above 0 and within it a 'pass', a duration of 0 no finding; with
\* a declared minDuration a duration above 0 and below it has a 'fail', and
\* there is never a finding for a duration that meets the minimum.
C16_Duration ==
  SchemeResolved =>
    /\ Declares("maxDuration") =>
         /\ Exceeds(Requested("duration"), Scheme.maxDuration) =>
              OneOf("Duration", "fail")
         /\ (/\ Requested("duration").num > 0
             /\ ~Exceeds(Requested("duration"), Scheme.maxDuration)) =>
              OneOf("Duration", "pass")
         /\ Requested("duration").num = 0 => FindingsOf("Duration") = {}
    /\ Declares("minDuration") =>
         IF BelowMinDuration THEN OneOf("Duration Minimum", "fail")
         ELSE FindingsOf("Duration Minimum") = {}
    /\ \A i \in FindingsOf("Duration Minimum") : Results[i].status = "fail"

\* a duration under the minimum: within the maximum, and failed for the minimum
C16_Witness ==
  /\ SchemeResolved
  /\ Declares("maxDuration") /\ Declares("minDuration")
  /\ Scheme.minDuration = Whole(3)
  /\ Requested("duration") = Whole(2)
  /\ OneOf("Duration", "pass")
  /\ OneOf("Duration Minimum", "fail")

\* a duration at the minimum, one over the maximum, and one of 0
C16_WitnessAtMin ==
  /\ SchemeResolved /\ Declares("minDuration") /\ Scheme.minDuration = Whole(3)
  /\ Requested("duration") = Whole(3)
  /\ OneOf("Duration", "pass") /\ FindingsOf("Duration Minimum") = {}

C16_WitnessOver ==
  /\ SchemeResolved /\ Declares("maxDuration") /\ Scheme.maxDuration = Whole(12)
  /\ Requested("duration") = Whole(13)
  /\ OneOf("Duration", "fail") /\ FindingsOf("Duration Minimum") = {}

C16_WitnessZero ==
  /\ SchemeResolved /\ Declares("maxDuration") /\ Declares("minDuration")
  /\ "duration" \in DOMAIN request.body /\ request.body.duration = Whole(0)
  /\ FindingsOf("Duration") = {} /\ FindingsOf("Duration Minimum") = {}

\* the full proposal text of the request: proposalText, or the values of
\* the section map joined by newlines when there is no proposalText
FullText ==
  IF Truthy(Field(request.body, "proposalText")) THEN request.body.proposalText
  ELSE Str(joinValues(Default(request.body, "sections", NoSections).entries,
                      Len(Default(request.body, "sections", NoSections).entries)))

\* one 'pass' finding that reports the number of words of the full text
TotalWordCountReported ==
  /\ OneOf("Total Word Count", "pass")
  /\ \A i \in FindingsOf("Total Word Count") :
       Results[i].args = <<Whole(WordCount(FullText))>>

\* C17 as stated: every run that resolves a scheme has exactly one 'pass'
\* finding reporting the total word count of the full text, whatever the
\* proposal text and the section map hold.
C17_TotalWordCount == SchemeResolved => TotalWordCountReported

\* C17 (amended): the run has that finding when the full text is not empty,
\* and no 'Total Word Count' finding when it is empty.
C17_TotalWordCountUnlessEmpty ==
  SchemeResolved =>
    IF Len(FullText.s) > 0 THEN TotalWordCountReported
    ELSE FindingsOf("Total Word Count") = {}

\* no proposalText: the 11 words of two section values are reported
C17_Witness ==
  /\ SchemeResolved
  /\ ~Truthy(Field(request.body, "proposalText"))
  /\ Len(Default(request.body, "sections", NoSections).entries) = 2
  /\ WordCount(FullText) = 11
  /\ TotalWordCountReported

\* an empty proposalText and an empty section map: no finding
C17_WitnessEmpty ==
  /\ SchemeResolved
  /\ Field(request.body, "proposalText") = T_empty
  /\ Field(request.body, "sections") = M_empty
  /\ FindingsOf("Total Word Count") = {}

\* the word w stands at index i of s as a whole word
WholeWordAt(s, w, i) ==
  /\ OccursAt(s, w, i)
  /\ (i = 1 \/ s[i - 1] \notin WordChars)
  /\ (i + Len(w) > Len(s) \/ s[i + Len(w)] \notin WordChars)

\* the whole-word occurrences of "I" in s, case-sensitive
FirstPersonIn(s) == Cardinality({i \in 1..Len(s) : WholeWordAt(s, <<"I">>, i)})

\* the whole-word occurrences of the six vague terms in the lower-case text
\* lower, all terms together
VagueIn(lower) ==
  Cardinality({p \in (1..Len(vagueTerms)) \X (1..Len(lower)) :
                 WholeWordAt(lower, vagueTerms[p[1]], p[2])})

\* both counts for the full text of the request
FirstPersonCount == FirstPersonIn(FullText.s)

VagueTotal == VagueIn(toLowerCase(FullText.s))

\* a check has its single 'warn' if cond holds and no finding if not
WarnsIff(check, cond) ==
  IF cond THEN OneOf(check, "warn") ELSE FindingsOf(check) = {}

\* C18: the first-person 'warn' is emitted if and only if "I" occurs more
\* than 10 times as a whole word in the full text, the vague-language 'warn'
\* if and only if the six vague terms occur more than 15 times in all.
C18_StyleWarnings ==
  SchemeResolved =>
    /\ WarnsIff("First Person Usage", FirstPersonCount > 10)
    /\ WarnsIff("Vague Language", VagueTotal > 15)

\* 11 times "I" and 15 vague terms: the first warning without the second
C18_Witness ==
  /\ SchemeResolved
  /\ FirstPersonCount = 11 /\ VagueTotal = 15
  /\ OneOf("First Person Usage", "warn")
  /\ FindingsOf("Vague Language") = {}

\* 10 times "I" and 16 vague terms of three kinds: the second without the first
C18_WitnessVague ==
  /\ SchemeResolved
  /\ FirstPersonCount = 10 /\ VagueTotal = 16
  /\ FindingsOf("First Person Usage") = {}
  /\ OneOf("Vague Language", "warn")

\* the scheme declares eligibility text
DeclaresEligibility ==
  /\ "eligibility" \in DOMAIN Scheme
  /\ Scheme.eligibility.k = "string" /\ Len(Scheme.eligibility.s) > 0

\* C19: whenever the resolved scheme declares eligibility text there is
\* exactly one 'warn' Eligibility finding, whatever the other inputs are, and
\* the overall severity is not 'pass'.
C19_EligibilityNote ==
  (SchemeResolved /\ DeclaresEligibility) =>
    /\ OneOf("Eligibility", "warn")
    /\ \A i \in FindingsOf("Eligibility") :
         Results[i].args = <<Scheme.eligibility>>
    /\ response.json.overall # "pass"

\* a run whose only finding that is not a 'pass' is the eligibility note
C19_Witness ==
  /\ SchemeResolved /\ DeclaresEligibility
  /\ OneOf("Total Word Count", "pass")
  /\ OneOf("Eligibility", "warn")
  /\ \A i \in 1..Len(Results) :
       Results[i].status # "pass" => Results[i].check = "Eligibility"
  /\ response.json.overall = "warn"

\* the four kinds of attachment, in lower case
AttachmentKinds ==
  {<<"c", "v">>,
   <<"l", "e", "t", "t", "e", "r", " ", "o", "f", " ", "s", "u", "p", "p", "o", "r", "t">>,
   <<"e", "t", "h", "i", "c", "s", " ", "a", "p", "p", "r", "o", "v", "a", "l">>,
   <<"d", "a", "t", "a", " ", "m", "a", "n", "a", "g", "e", "m", "e", "n", "t", " ", "p", "l", "a", "n">>}

\* the declared sections whose name contains a kind of attachment
AttachmentIndexes ==
  {j \in 1..Len(SectionsOf) :
     \E a \in AttachmentKinds : includes(toLowerCase(SectionsOf[j].name.s), a)}

\* the k-th of them in declared order
NthAttachment(k) ==
  CHOOSE j \in AttachmentIndexes :
    Cardinality({x \in AttachmentIndexes : x <= j}) = k

\* C20: there is a single 'warn' attachment reminder if and only if a
\* declared section name contains, in any case, one of CV, Letter of
\* Support, Ethics Approval, Data Management Plan, and it lists exactly the
\* matching section names in declared order.
C20_AttachmentReminder ==
  SchemeResolved =>
    /\ WarnsIff("Required Attachments", AttachmentIndexes # {})
    /\ \A i \in FindingsOf("Required Attachments") :
         Results[i].args =
           [k \in 1..Cardinality(AttachmentIndexes) |->
              SectionsOf[NthAttachment(k)].name]

\* three of six declared sections match, a plain one standing between them
C20_Witness ==
  /\ SchemeResolved
  /\ Len(SectionsOf) = 6
  /\ AttachmentIndexes = {3, 5, 6}
  /\ OneOf("Required Attachments", "warn")
  /\ \E i \in FindingsOf("Required Attachments") :
       Results[i].args = <<Str(N_Letter), Str(N_CVs), Str(N_DMP)>>

\* declared sections none of which matches: no reminder
C20_WitnessNone ==
  /\ SchemeResolved
  /\ Len(SectionsOf) > 0 /\ AttachmentIndexes = {}
  /\ FindingsOf("Required Attachments") = {}

\* the place of each check in the evaluation order
CheckOrder ==
  <<"Budget Maximum", "Budget Minimum", "Duration", "Duration Minimum",
    "Section", "Total Word Count", "First Person Usage", "Vague Language",
    "Eligibility", "Required Attachments">>

PlaceOf(check) == CHOOSE k \in 1..Len(CheckOrder) : CheckOrder[k] = check

\* the place of a part among the findings of one section
PartOrder == <<"Present", "Word Limit", "Page Limit">>

PartPlaceOf(part) ==
  IF part = "" THEN 1 ELSE CHOOSE k \in 1..Len(PartOrder) : PartOrder[k] = part

\* the declared index of the section a finding is about
DeclaredIndex(name) ==
  CHOOSE j \in 1..Len(SectionsOf) : SectionsOf[j].name.s = name

\* finding f comes before finding g in the evaluation order
ComesBefore(f, g) ==
  \/ PlaceOf(f.check) < PlaceOf(g.check)
  \/ /\ f.check = "Section" /\ g.check = "Section"
     /\ \/ DeclaredIndex(f.section) < DeclaredIndex(g.section)
        \/ /\ f.section = g.section
           /\ PartPlaceOf(f.part) < PartPlaceOf(g.part)

\* C22: the findings stand in results in the evaluation order: budget
\* maximum, budget minimum, duration maximum, duration minimum, the sections
\* in declared order (presence, word limit, page limit of each), total word
\* count, first person, vague language, eligibility, attachments.
C22_EvaluationOrder ==
  SchemeResolved =>
    \A i \in 1..(Len(Results) - 1) : ComesBefore(Results[i], Results[i + 1])

\* a run with a finding of every check and of every part
C22_Witness ==
  /\ SchemeResolved
  /\ {Results[i].check : i \in 1..Len(Results)} =
       {CheckOrder[k] : k \in 1..Len(CheckOrder)}
  /\ {Results[i].part : i \in 1..Len(Results)} =
       {""} \cup {PartOrder[k] : k \in 1..Len(PartOrder)}
  /\ Cardinality({Results[i].section : i \in 1..Len(Results)}) >= 3

\* the section map and the proposal text of the request
SectionsSent == Default(request.body, "sections", NoSections)

TextSent == Field(request.body, "proposalText")

\* the first key of the section map that contains the name or is contained
\* in it, letter case apart; 0 when there is none
FirstFuzzy(name) ==
  LET hits == {i \in 1..Len(SectionsSent.entries) :
                 \/ includes(toLowerCase(SectionsSent.entries[i].key), toLowerCase(name))
                 \/ includes(toLowerCase(name), toLowerCase(SectionsSent.entries[i].key))}
  IN IF hits = {} THEN 0 ELSE CHOOSE i \in hits : \A j \in hits : i <= j

\* the three tiers in order, each yielding its text or nothing (Null)
ExactTier(name) ==
  IF Truthy(Lookup(SectionsSent, name)) THEN Lookup(SectionsSent, name) ELSE Null

FuzzyTier(name) ==
  IF FirstFuzzy(name) # 0 /\ Truthy(SectionsSent.entries[FirstFuzzy(name)].value)
  THEN SectionsSent.entries[FirstFuzzy(name)].value ELSE Null

HeadingTier(name) ==
  IF Truthy(TextSent) THEN headingMatch(TextSent.s, name) ELSE Null

FirstSuccessful(name) ==
  IF ExactTier(name) # Null THEN ExactTier(name)
  ELSE IF FuzzyTier(name) # Null THEN FuzzyTier(name)
  ELSE HeadingTier(name)

\* C23: the text resolved for each declared section is the first successful
\* match of the three tiers: the entry under the exact name if it has text,
\* otherwise the entry of a fuzzily matching key if it has text, otherwise
\* the heading block of the proposal text, and nothing when no tier has text.
C23_ThreeTiers ==
  SchemeResolved =>
    \A j \in 1..Len(SectionsOf) :
      IF FirstSuccessful(SectionsOf[j].name.s) = Null
      THEN ~Truthy(ResolvedText(j))
      ELSE ResolvedText(j) = FirstSuccessful(SectionsOf[j].name.s)

\* the declared sections that are not marked required
OptionalSections == (1..Len(SectionsOf)) \ RequiredSections

\* C25: a declared section that is not marked required never has a presence
\* finding, has no finding at all when no text resolves, and has its
\* word-limit and page-limit checks whenever text resolves.
C25_OptionalSection ==
  SchemeResolved =>
    \A j \in OptionalSections :
      /\ PartFindings(j, "") = {} /\ PartFindings(j, "Present") = {}
      /\ ~Truthy(ResolvedText(j)) => SectionFindings(j) = {}
      /\ j \in Limited("maxWords") => WordLimitAsStated(j)
      /\ j \in Limited("maxPages") => PageLimitAsStated(j)

\* an optional section with a text too short for a required one, and its
\* page-limit finding
C25_Witness ==
  /\ SchemeResolved
  /\ 2 \in OptionalSections /\ 2 \in Limited("maxPages")
  /\ trimLength(ResolvedText(2).s) < 50
  /\ OneFinding(2, "Page Limit", "pass")
  /\ Cardinality(SectionFindings(2)) = 1

\* an optional section with limits and no text, and one over its word limit
C25_WitnessNoText ==
  /\ SchemeResolved
  /\ 2 \in OptionalSections /\ "maxPages" \in DOMAIN SectionsOf[2]
  /\ ~Truthy(ResolvedText(2))
  /\ SectionFindings(2) = {}

C25_WitnessOver ==
  /\ SchemeResolved
  /\ 1 \in OptionalSections /\ 1 \in Limited("maxWords")
  /\ OneFinding(1, "Word Limit", "fail")
  /\ Cardinality(SectionFindings(1)) = 1

C21_WitnessAdjacent ==
  /\ Len(calls) = 2
  /\ calls[1].route = "compliance" /\ calls[1].out.status = 200
  /\ calls[2] = calls[1]


(***************************************************************************)
(* Properties of the proposal store                                        *)
(***************************************************************************)
VersionKeys == {"versionId", "timestamp", "label"}

\* the steps of the restore request in hand
RestoreStep(from, to) ==
  restoring.pc = from /\ restoring' # restoring /\ restoring'.pc = to

VersionReadable ==
  /\ restoring.versionId \in DOMAIN versions
  /\ versions[restoring.versionId].of = restoring.id

NothingWritten == proposals' = proposals /\ versions' = versions

\* the step stores exactly one new version, of the proposal being restored:
\* the content read from it, labelled 'Auto-save before restore'
SavesCurrent ==
  \E v \in DOMAIN versions' \ DOMAIN versions :
    /\ DOMAIN versions' = DOMAIN versions \cup {v}
    /\ \A old \in DOMAIN versions : versions'[old] = versions[old]
    /\ versions'[v].of = restoring.id
    /\ versions'[v].data.label = "Auto-save before restore"
    /\ Without(versions'[v].data, VersionKeys)
         = Without(restoring.currentData, VersionKeys)
    /\ proposals' = proposals

\* the step leaves the proposal with the content of the version, its own id,
\* and none of the keys of a version
Overwrites ==
  /\ DOMAIN proposals' = DOMAIN proposals \cup {restoring.id}
  /\ \A other \in DOMAIN proposals \ {restoring.id} :
       proposals'[other] = proposals[other]
  /\ proposals'[restoring.id].id = restoring.id
  /\ DOMAIN proposals'[restoring.id] \cap VersionKeys = {}
  /\ Without(proposals'[restoring.id], {"id", "updatedAt"})
       = Without(restoring.vData, VersionKeys \cup {"id", "updatedAt"})
  /\ versions' = versions

\* C26: a restore of version V into proposal P first stores the content it
\* read from P as one new version of P labelled 'Auto-save before restore',
\* leaving P as it is, and only then overwrites P, leaving the versions as
\* they are: P then has V's content, P's id, and no versionId, timestamp or
\* label; when V or P cannot be read the request ends with nothing written.
C26_Restore ==
  [][ /\ RestoreStep("readVersion", "readCurrent")
           => VersionReadable /\ NothingWritten
                /\ restoring'.vData = versions[restoring.versionId].data
      /\ RestoreStep("readVersion", "idle") => ~VersionReadable /\ NothingWritten
      /\ RestoreStep("readCurrent", "saveCurrent")
           => restoring.id \in DOMAIN proposals /\ NothingWritten
                /\ restoring'.currentData = proposals[restoring.id]
      /\ RestoreStep("readCurrent", "idle")
           => restoring.id \notin DOMAIN proposals /\ NothingWritten
      /\ RestoreStep("saveCurrent", "overwrite") => SavesCurrent
      /\ RestoreStep("overwrite", "idle") => Overwrites
      /\ restoring' # restoring
           => \/ RestoreStep("idle", "readVersion") /\ NothingWritten
              \/ RestoreStep("readVersion", "readCurrent")
              \/ RestoreStep("readVersion", "idle")
              \/ RestoreStep("readCurrent", "saveCurrent")
              \/ RestoreStep("readCurrent", "idle")
              \/ RestoreStep("saveCurrent", "overwrite")
              \/ RestoreStep("overwrite", "idle") ]_vars

\* a restore has ended: the proposal has the title of the version restored,
\* and the version saved before it has the title the proposal had
C26_Witness ==
  /\ restoring = NotRestoring
  /\ \E a \in DOMAIN versions, v \in DOMAIN versions :
       /\ versions[a].data.label = "Auto-save before restore"
       /\ versions[v].data.label # "Auto-save before restore"
       /\ versions[a].of = versions[v].of
       /\ versions[a].of \in DOMAIN proposals
       /\ proposals[versions[a].of].title = versions[v].data.title
       /\ versions[a].data.title # versions[v].data.title
       /\ "label" \notin DOMAIN proposals[versions[a].of]

\* a restore is about to read a version that its proposal does not have
C26_WitnessNoVersion ==
  restoring.pc = "readVersion" /\ ~VersionReadable

\* a restore is about to read a proposal that was deleted in the meantime
C26_WitnessNoProposal ==
  restoring.pc = "readCurrent" /\ restoring.id \notin DOMAIN proposals

StoredUnderOwnId ==
  \A id \in DOMAIN proposals :
    proposals[id].id = id /\ proposals[id].createdAt = createdAtOf[id]

WritesUnderFreshId ==
  \E new \in DOMAIN proposals' :
    /\ new \notin 1..issued
    /\ DOMAIN proposals' = DOMAIN proposals \cup {new}
    /\ \A old \in DOMAIN proposals : proposals'[old] = proposals[old]

\* C27: every stored proposal has the id it is stored under and the
\* createdAt written when it was created, whatever the request bodies carry;
\* create, duplicate and import write under an identifier never given out
\* before and leave the proposals already stored as they are.
C27_IdAndCreatedAt ==
  /\ []StoredUnderOwnId
  /\ [][(CreateProposal \/ DuplicateProposal \/ ImportProposal)
          => WritesUnderFreshId]_vars

\* two proposals, one of them updated with a body that carries an id and a
\* createdAt of its own, the other a copy
C27_Witness ==
  \E a \in DOMAIN proposals, b \in DOMAIN proposals :
    /\ a # b
    /\ "label" \in DOMAIN proposals[a]
    /\ proposals[a].updatedAt # proposals[a].createdAt
    /\ proposals[a].title = ForgedBody.title
    /\ Len(proposals[b].title) > 1

(***************************************************************************)
(* Properties of the editor                                                *)
(***************************************************************************)
\* what the editor's handlers write of a proposal
Editable(p) == [title |-> p.title, status |-> p.status]

\* C28: when the answer of a save arrives and the proposal in the editor
\* is no longer the one that was sent, either state.currentProposal keeps
\* the edits and unsavedChanges is true, or the stored proposal has them.
C28_EditNotLost ==
  [][\A i \in DOMAIN saves :
       SaveResponseOf(i)
         /\ Editable(state.currentProposal) # Editable(saves[i].body)
       => \/ /\ Editable(state'.currentProposal) = Editable(state.currentProposal)
             /\ state'.unsavedChanges
          \/ Editable(proposals'[TheProposal])
               = Editable(state.currentProposal)]_vars

(***************************************************************************)
(* Properties of a generation                                              *)
(***************************************************************************)
Carries(type) == \E i \in DOMAIN res.wire : res.wire[i].type = type

\* C29: when streamResponse has returned, onComplete was called once if
\* the response ended with a done event, and not at all if it carried an
\* error event, the text of the section then being the one it was.
C29_OnCompleteOnce ==
  reading.pc = "returned" =>
    /\ Carries("done") => Len(reading.completed) = 1
    /\ Carries("error") =>
         /\ Len(reading.completed) = 0
         /\ state.currentProposal.sections[TheSection] = OldText

Terminal(event) == event.type \in {"done", "error"}

ChunksOf(wire) ==
  [i \in 1..Cardinality({j \in DOMAIN wire : wire[j].type = "chunk"}) |->
     wire[i].content]

\* the events written are chunk events, but for a last, terminal one, with
\* which the response is ended; the chunks are those of the provider, in
\* its order; the terminal event tells how the provider call ended
StreamShape ==
  /\ \A i \in DOMAIN res.wire :
       IF i = Len(res.wire) /\ res.ended
       THEN Terminal(res.wire[i])
       ELSE res.wire[i].type = "chunk"
  /\ ChunksOf(res.wire) = generation.produced
  /\ res.ended => /\ res.wire # <<>>
                  /\ Carries("done") <=> generation.pc = "completed"
                  /\ Carries("error") <=> generation.pc = "raised"
  /\ res.ended <=> generation.answered

\* C30: a response of a generate route is chunk events in the order of the
\* provider, then one terminal event, done when the provider call returned
\* and error when it threw, and nothing after it.
C30_EventOrder ==
  /\ []StreamShape
  /\ [][res.ended => res' = res]_vars

\* two chunks, then the error event, all written and the response ended
C30_Witness ==
  /\ res.ended /\ Len(res.wire) = 3 /\ Carries("error")
  /\ res.wire[1].content # res.wire[2].content

\* a chunk, then the done event
C30_WitnessDone ==
  res.ended /\ Len(res.wire) = 2 /\ Carries("done")

====
